---- MODULE Spec2Model ----
(***************************************************************************)
(* Verification model of the timetable CSP solver                          *)
(* (src/timetable-generator/csp_solver.py, constraints.py, schemas.py).    *)
(*                                                                         *)
(* Python values are represented as follows.                               *)
(*   - pydantic models are records with the fields the solver reads;       *)
(*   - None is the record None; an Optional[Assignment] that is not None  *)
(*     is Some(assignment);                                                *)
(*   - a dict is a sequence of entries in insertion order;                 *)
(*   - a frozenset of Section is a set; where the code iterates over one,  *)
(*     the iteration order is the fixed order IterOrder (section_id);      *)
(*   - a float score is a fixed-point integer in units of 1/ScoreScale,    *)
(*     float('inf') is the sentinel Inf.                                   *)
(***************************************************************************)
EXTENDS Integers, Sequences, FiniteSets, TLC

\* ------------------------------------------------------------------------
\* Bounds of the model
\* ------------------------------------------------------------------------
MaxSlots == 3
MaxSecs == 2
MaxCurr == 2
MaxPlaced == 2

\* ------------------------------------------------------------------------
\* Program constants
\* ------------------------------------------------------------------------
STANDARD_SECTION_PLANNING_SIZE == 15
_GAP_PENALTY == 5
_UNDESIRABLE_SLOT_PENALTY == 3
ScoreScale == 1000
Inf == 1000000000

None == [none |-> TRUE]

\* an Optional[Assignment] that is not None
Some(assignment) == [some |-> assignment]

\* an exception, raised or delivered: its type and what it carries
KeyError(key) == [raised |-> "KeyError", reason |-> key]

\* fault: the handler re-raises what it caught (raise in place of
\* raise ValueError(...))
RaisedAsIs(e) == e

\* solve, line 78: the ValueError built from the exception caught
ValueError(e) == [raised |-> "ValueError", reason |-> e]

IsRaised(x) == "raised" \in DOMAIN x

SessionType == <<"Lecture", "Lab", "Tutorial", "Project">>
DayOfWeek == <<"Sunday", "Monday", "Tuesday", "Wednesday", "Thursday">>

\* SLOT_ORDER: canonical start time (HHMM) -> ordinal
SLOT_ORDER == (900 :> 0) @@ (1045 :> 1) @@ (1230 :> 2) @@ (1415 :> 3)

\* ------------------------------------------------------------------------
\* Generic sequence helpers
\* ------------------------------------------------------------------------
Min(a, b) == IF a < b THEN a ELSE b

Range(s) == {s[i] : i \in 1..Len(s)}

RECURSIVE SelectSeqBy(_, _)
\* the elements of s that belong to the set S, in the order of s
SelectSeqBy(s, S) ==
    IF s = <<>> THEN <<>>
    ELSE IF Head(s) \in S THEN <<Head(s)>> \o SelectSeqBy(Tail(s), S)
    ELSE SelectSeqBy(Tail(s), S)

RECURSIVE SumSeq(_)
SumSeq(s) == IF s = <<>> THEN 0 ELSE Head(s) + SumSeq(Tail(s))

RECURSIVE Flatten(_)
Flatten(ss) == IF ss = <<>> THEN <<>> ELSE Head(ss) \o Flatten(Tail(ss))

RECURSIVE ISqrtIn(_, _, _)
\* the largest r in lo..hi with r*r <= n (binary search)
ISqrtIn(n, lo, hi) ==
    IF lo >= hi THEN lo
    ELSE LET mid == (lo + hi + 1) \div 2
         IN IF mid * mid <= n THEN ISqrtIn(n, mid, hi) ELSE ISqrtIn(n, lo, mid - 1)

ISqrt(n) == ISqrtIn(n, 0, 46340)

\* ------------------------------------------------------------------------
\* Entities the inputs are drawn from (schemas.py)
\* ------------------------------------------------------------------------
Course(id, type) == [course_id |-> id, type |-> type]
Section(id, group, year) == [section_id |-> id, group_number |-> group, year |-> year]
Room(id, types, capacity) == [room_id |-> id, types |-> types, capacity |-> capacity]
Instructor(id, role, quals) == [instructor_id |-> id, role |-> role, qualifications |-> quals]
TimeSlot(id, day, start) == [timeslot_id |-> id, day |-> day, start_time |-> start]
Curriculum(year, id) == [year |-> year, course_id |-> id]

TimeSlotTable ==
    << TimeSlot(1, "Sunday", 900),  TimeSlot(2, "Sunday", 1230),
       TimeSlot(3, "Monday", 1415), TimeSlot(4, "Monday", 1045),
       TimeSlot(5, "Tuesday", 900) >>

CourseTable ==
    << Course("A", "Lecture"), Course("A", "Lab"),
       Course("B", "Project"), Course("C", "Lecture") >>

Year1Sections == << Section(1, 1, 1), Section(2, 1, 1), Section(3, 2, 1), Section(4, 2, 1) >>
Year2Sections == << Section(1, 1, 2) >>

CurriculumTable ==
    << Curriculum(1, "A"), Curriculum(2, "A"), Curriculum(1, "B"),
       Curriculum(2, "B"), Curriculum(1, "C"), Curriculum(1, "D") >>

RoomMenu ==
    { <<>>,
      << Room(1, {"Lecture", "Lab"}, 10) >>,
      << Room(1, {"Lecture", "Lab"}, 30) >>,
      << Room(1, {"Lecture", "Lab"}, 15), Room(2, {"Lecture"}, 30) >> }

InstructorMenu ==
    { << Instructor(1, "Professor", {"A", "C"}) >>,
      << Instructor(1, "Professor", {"A", "C"}),
         Instructor(2, "Teaching Assistant", {"A"}) >> }

\* the time slots with one start time outside the four of SLOT_ORDER (the
\* loader takes any time of day)
MalformedTimeSlotTable ==
    << TimeSlot(1, "Sunday", 900),  TimeSlot(2, "Sunday", 1230),
       TimeSlot(3, "Sunday", 1100), TimeSlot(4, "Monday", 1045),
       TimeSlot(5, "Tuesday", 900) >>

\* the time slots with two of them (two identifiers) on one day at one start
\* time (the loader takes any rows)
TwinTimeSlotTable ==
    << TimeSlot(1, "Sunday", 900),  TimeSlot(2, "Sunday", 1230),
       TimeSlot(3, "Sunday", 900),  TimeSlot(4, "Monday", 1045),
       TimeSlot(5, "Tuesday", 900) >>

\* TimetableData values over a table of time slots
TimetableDataOver(table) ==
    { [courses |-> CourseTable,
       instructors |-> ins,
       rooms |-> rms,
       timeslots |-> SubSeq(table, 1, nts),
       sections |-> SubSeq(Year1Sections, 1, n1) \o SubSeq(Year2Sections, 1, n2),
       curriculum |-> SelectSeqBy(CurriculumTable, cur)] :
        ins \in InstructorMenu, rms \in RoomMenu, nts \in 1..MaxSlots,
        n1 \in 0..MaxSecs, n2 \in 0..1,
        cur \in {c \in SUBSET Range(CurriculumTable) : Cardinality(c) <= MaxCurr} }

\* TimetableData values with one Lecture course, one section and one time slot
\* that is neither the first nor the last of the day
SingleClassData ==
    { [courses |-> CourseTable,
       instructors |-> ins,
       rooms |-> rms,
       timeslots |-> << TimeSlotTable[2] >>,
       sections |-> SubSeq(Year1Sections, 1, 1),
       curriculum |-> << Curriculum(1, "C") >>] :
        ins \in InstructorMenu, rms \in RoomMenu }

\* TimetableData values the solver is constructed with
TimetableData == TimetableDataOver(TimeSlotTable) \cup SingleClassData

\* TimetableData values with two time slots on one day at one start time
TwinTimetableData == TimetableDataOver(TwinTimeSlotTable)

\* TimetableData values with a start time SLOT_ORDER does not have
MalformedTimetableData == TimetableDataOver(MalformedTimeSlotTable)

\* ------------------------------------------------------------------------
\* Python dict as a sequence of entries [course, sections] in insertion order
\* ------------------------------------------------------------------------
HasKey(d, k) == \E i \in 1..Len(d) : d[i].course = k

\* fault: the key is deleted and inserted again, so that it moves to the end
\* of the dict
DictSetMovesToEnd(d, k, v) ==
    LET kept == {i \in 1..Len(d) : d[i].course # k}
        rest == [j \in 1..Cardinality(kept) |->
                    d[CHOOSE i \in kept : Cardinality({h \in kept : h < i}) = j - 1]]
    IN Append(rest, [course |-> k, sections |-> v])

\* d[k] = v : overwrite in place when the key is present, else append
DictSet(d, k, v) ==
    IF HasKey(d, k)
    THEN [i \in 1..Len(d) |-> IF d[i].course = k THEN [d[i] EXCEPT !.sections = v] ELSE d[i]]
    ELSE Append(d, [course |-> k, sections |-> v])

DictGet(d, k) == d[CHOOSE i \in 1..Len(d) : d[i].course = k].sections

RECURSIVE DictSetAll(_, _)
DictSetAll(d, entries) ==
    IF entries = <<>> THEN d
    ELSE DictSetAll(DictSet(d, Head(entries).course, Head(entries).sections), Tail(entries))

\* ------------------------------------------------------------------------
\* CSPSolver._initialize_internal_lookups
\* ------------------------------------------------------------------------
RECURSIVE DistinctInOrder(_, _)
\* the distinct elements of s in order of first appearance (dict key order)
DistinctInOrder(s, seen) ==
    IF s = <<>> THEN <<>>
    ELSE IF Head(s) \in seen THEN DistinctInOrder(Tail(s), seen)
    ELSE <<Head(s)>> \o DistinctInOrder(Tail(s), seen \cup {Head(s)})

\* curriculum_map: its keys (years) in insertion order, and the list of a year
curriculum_years(data) ==
    DistinctInOrder([i \in 1..Len(data.curriculum) |-> data.curriculum[i].year], {})

curriculum_map(data, year) ==
    LET own == SelectSeqBy(data.curriculum, {c \in Range(data.curriculum) : c.year = year})
    IN [i \in 1..Len(own) |-> own[i].course_id]

\* sections_map.get(year, [])
sections_map(data, year) ==
    SelectSeqBy(data.sections, {s \in Range(data.sections) : s.year = year})

\* course_map.get((course_id, session_type)) is not None
course_map_has(data, course_id, session_type) ==
    \E i \in 1..Len(data.courses) :
        data.courses[i].course_id = course_id /\ data.courses[i].type = session_type

\* rooms_map.get(type, [])
rooms_map(data, type) ==
    SelectSeqBy(data.rooms, {r \in Range(data.rooms) : type \in r.types})

\* instructors_map.get(course_id, [])
instructors_map(data, course_id) ==
    SelectSeqBy(data.instructors,
                {i \in Range(data.instructors) : course_id \in i.qualifications})

\* the assignments unscheduled_sections_map[course_obj] = sections_to_schedule of
\* one year, in the order the loops of lines 105-110 make them
YearEntries(data, year) ==
    LET ids == curriculum_map(data, year)
        secs == Range(sections_map(data, year))
        OfId(id) ==
            SelectSeqBy([t \in 1..Len(SessionType) |->
                            [course |-> Course(id, SessionType[t]), sections |-> secs]],
                        {[course |-> Course(id, ty), sections |-> secs] :
                            ty \in {t \in Range(SessionType) : course_map_has(data, id, t)}})
    IN IF sections_map(data, year) = <<>> THEN <<>>
       ELSE Flatten([i \in 1..Len(ids) |-> OfId(ids[i])])

\* the value of unscheduled_sections_map after construction
_initialize_internal_lookups(data) ==
    LET years == curriculum_years(data)
    IN DictSetAll(<<>>, Flatten([y \in 1..Len(years) |-> YearEntries(data, years[y])]))

\* ------------------------------------------------------------------------
\* CSPSolver._generate_valid_domains
\* ------------------------------------------------------------------------
Domain(ts, room, instructor) == [timeslot |-> ts, room |-> room, instructor |-> instructor]

valid_instructors(data, course) ==
    LET qualified == instructors_map(data, course.course_id)
    IN IF course.type = "Lecture"
       THEN SelectSeqBy(qualified, {i \in Range(qualified) : i.role \in {"Doctor", "Professor"}})
       ELSE IF course.type \in {"Lab", "Tutorial"}
       THEN SelectSeqBy(qualified, {i \in Range(qualified) : i.role = "Teaching Assistant"})
       ELSE <<>>

\* fault: the comprehension of line 130 with the room loop outermost
generate_domains_room_first(data, course) ==
    LET tss == data.timeslots
        rooms == rooms_map(data, course.type)
        insts == valid_instructors(data, course)
    IN IF course.type = "Project"
       THEN [t \in 1..Len(tss) |-> Domain(tss[t], None, None)]
       ELSE IF rooms = <<>> \/ insts = <<>> THEN <<>>
       ELSE Flatten([r \in 1..Len(rooms) |->
                Flatten([t \in 1..Len(tss) |->
                    [i \in 1..Len(insts) |-> Domain(tss[t], rooms[r], insts[i])]])])

_generate_valid_domains(data, course) ==
    LET tss == data.timeslots
        rooms == rooms_map(data, course.type)
        insts == valid_instructors(data, course)
    IN IF course.type = "Project"
       THEN [t \in 1..Len(tss) |-> Domain(tss[t], None, None)]
       ELSE IF rooms = <<>> \/ insts = <<>> THEN <<>>
       ELSE Flatten([t \in 1..Len(tss) |->
                Flatten([r \in 1..Len(rooms) |->
                    [i \in 1..Len(insts) |-> Domain(tss[t], rooms[r], insts[i])]])])

\* ------------------------------------------------------------------------
\* CSPSolver._select_next_course_to_schedule
\* ------------------------------------------------------------------------
Selection(course, domains) == [course |-> course, domains |-> domains]

RECURSIVE SelectLoopFirstFit(_, _, _, _)
\* fault: the first course with pending sections is kept, whatever the size of
\* its domain list (best_candidate is None in place of the comparison)
SelectLoopFirstFit(data, entries, best_candidate, min_domain_size) ==
    IF entries = <<>> THEN best_candidate
    ELSE LET course == Head(entries).course
             domains == _generate_valid_domains(data, course)
         IN IF Head(entries).sections = {}
            THEN SelectLoopFirstFit(data, Tail(entries), best_candidate, min_domain_size)
            ELSE IF domains = <<>> THEN Selection(course, <<>>)
            ELSE IF best_candidate = None
            THEN SelectLoopFirstFit(data, Tail(entries), Selection(course, domains),
                                    Len(domains))
            ELSE SelectLoopFirstFit(data, Tail(entries), best_candidate, min_domain_size)

RECURSIVE SelectLoopSkipsEmpty(_, _, _, _)
\* fault: a course with an empty domain list is skipped (continue) in place of
\* being returned at once
SelectLoopSkipsEmpty(data, entries, best_candidate, min_domain_size) ==
    IF entries = <<>> THEN best_candidate
    ELSE LET course == Head(entries).course
             domains == _generate_valid_domains(data, course)
         IN IF Head(entries).sections = {} \/ domains = <<>>
            THEN SelectLoopSkipsEmpty(data, Tail(entries), best_candidate, min_domain_size)
            ELSE IF Len(domains) < min_domain_size
            THEN SelectLoopSkipsEmpty(data, Tail(entries), Selection(course, domains),
                                      Len(domains))
            ELSE SelectLoopSkipsEmpty(data, Tail(entries), best_candidate, min_domain_size)

RECURSIVE SelectLoop(_, _, _, _)
\* the loop of lines 138-144 over the remaining entries of the map
SelectLoop(data, entries, best_candidate, min_domain_size) ==
    IF entries = <<>> THEN best_candidate
    ELSE LET course == Head(entries).course
             domains == _generate_valid_domains(data, course)
         IN IF Head(entries).sections = {}
            THEN SelectLoop(data, Tail(entries), best_candidate, min_domain_size)
            ELSE IF domains = <<>> THEN Selection(course, <<>>)
            ELSE IF Len(domains) < min_domain_size
            THEN SelectLoop(data, Tail(entries), Selection(course, domains), Len(domains))
            ELSE SelectLoop(data, Tail(entries), best_candidate, min_domain_size)

_select_next_course_to_schedule(data, unscheduled_sections_map) ==
    SelectLoop(data, unscheduled_sections_map, None, Inf)

\* ------------------------------------------------------------------------
\* CSPSolver._form_valid_groups
\* ------------------------------------------------------------------------
RECURSIVE IterOrder(_)
\* the order in which a frozenset of Section is iterated
IterOrder(S) ==
    IF S = {} THEN <<>>
    ELSE LET first == CHOOSE s \in S : \A t \in S :
                         \/ s.section_id < t.section_id
                         \/ s.section_id = t.section_id /\ s.year <= t.year
         IN <<first>> \o IterOrder(S \ {first})

RECURSIVE combinations(_, _)
\* itertools.combinations(s, size), each combination as a frozenset
combinations(s, size) ==
    IF size = 0 THEN << {} >>
    ELSE IF Len(s) < size THEN <<>>
    ELSE LET with == combinations(Tail(s), size - 1)
         IN [i \in 1..Len(with) |-> {Head(s)} \cup with[i]] \o combinations(Tail(s), size)

\* fault: max_size is rounded up, a room below the planning size takes one
\* section
GroupBundlesRoundedUp(sections_in_group, room) ==
    LET max_size == (room.capacity + STANDARD_SECTION_PLANNING_SIZE - 1)
                        \div STANDARD_SECTION_PLANNING_SIZE
        effective_max_size == Min(max_size, Len(sections_in_group))
    IN Flatten([k \in 1..effective_max_size |->
                    combinations(sections_in_group, effective_max_size + 1 - k)])

\* fault: range(effective_max_size, -1, -1), so that the combination of size 0,
\* the empty bundle, is yielded last
GroupBundlesWithEmpty(sections_in_group, room) ==
    LET max_size == room.capacity \div STANDARD_SECTION_PLANNING_SIZE
        effective_max_size == Min(max_size, Len(sections_in_group))
    IN Flatten([k \in 1..(effective_max_size + 1) |->
                    combinations(sections_in_group, effective_max_size + 1 - k)])

\* fault: range(1, effective_max_size + 1), the sizes in ascending order
GroupBundlesAscending(sections_in_group, room) ==
    LET max_size == room.capacity \div STANDARD_SECTION_PLANNING_SIZE
        effective_max_size == Min(max_size, Len(sections_in_group))
    IN Flatten([k \in 1..effective_max_size |-> combinations(sections_in_group, k)])

\* the bundles of one group: sizes effective_max_size down to 1
GroupBundles(sections_in_group, room) ==
    LET max_size == room.capacity \div STANDARD_SECTION_PLANNING_SIZE
        effective_max_size == Min(max_size, Len(sections_in_group))
    IN Flatten([k \in 1..effective_max_size |->
                    combinations(sections_in_group, effective_max_size + 1 - k)])

\* fault: the sections are not partitioned by group number, the combinations
\* are taken over the whole pending set
form_groups_across_groups(unscheduled_sections, room) ==
    IF room = None
    THEN IF unscheduled_sections # {} THEN << unscheduled_sections >> ELSE <<>>
    ELSE GroupBundles(IterOrder(unscheduled_sections), room)

\* everything the generator yields, in order
_form_valid_groups(unscheduled_sections, room) ==
    IF room = None
    THEN IF unscheduled_sections # {} THEN << unscheduled_sections >> ELSE <<>>
    ELSE LET secs == IterOrder(unscheduled_sections)
             groups == DistinctInOrder([i \in 1..Len(secs) |-> secs[i].group_number], {})
             sections_by_group(g) ==
                 SelectSeqBy(secs, {s \in unscheduled_sections : s.group_number = g})
         IN Flatten([g \in 1..Len(groups) |-> GroupBundles(sections_by_group(groups[g]), room)])

\* ------------------------------------------------------------------------
\* constraints.py: hard constraints
\* An Assignment (dict Variable -> Domain) is a sequence of entries
\* [variable, domain] in insertion order.
\* ------------------------------------------------------------------------
Variable(course, sections) == [course |-> course, sections |-> sections]

\* next(iter(sections)).year
FirstYear(sections) == IterOrder(sections)[1].year

\* fault: the None guard is inverted, so two present instructors never conflict
InstructorGuardInverted(proposed_domain, existing_domain) ==
    LET proposed_instructor == proposed_domain.instructor
        existing_instructor == existing_domain.instructor
    IN IF proposed_instructor # None \/ existing_instructor # None THEN FALSE
       ELSE proposed_domain.timeslot.timeslot_id = existing_domain.timeslot.timeslot_id

_check_instructor_conflict(proposed_domain, existing_domain) ==
    LET proposed_instructor == proposed_domain.instructor
        existing_instructor == existing_domain.instructor
    IN IF proposed_instructor = None \/ existing_instructor = None THEN FALSE
       ELSE /\ proposed_instructor.instructor_id = existing_instructor.instructor_id
            /\ proposed_domain.timeslot.timeslot_id = existing_domain.timeslot.timeslot_id

\* fault: the existing room is read at DOM_INSTRUCTOR; a room_id (str) never
\* equals an instructor_id (int)
RoomReadAtWrongIndex(proposed_domain, existing_domain) ==
    LET proposed_room == proposed_domain.room
        existing_room == existing_domain.instructor
    IN IF proposed_room = None \/ existing_room = None THEN FALSE
       ELSE FALSE

_check_room_conflict(proposed_domain, existing_domain) ==
    LET proposed_room == proposed_domain.room
        existing_room == existing_domain.room
    IN IF proposed_room = None \/ existing_room = None THEN FALSE
       ELSE /\ proposed_room.room_id = existing_room.room_id
            /\ proposed_domain.timeslot.timeslot_id = existing_domain.timeslot.timeslot_id

\* fault: the section sets are compared with == in place of intersected
SectionConflictEqualSets(proposed_variable, proposed_domain, existing_variable, existing_domain) ==
    IF proposed_variable.sections # existing_variable.sections THEN FALSE
    ELSE proposed_domain.timeslot.timeslot_id = existing_domain.timeslot.timeslot_id

_check_section_conflict(proposed_variable, proposed_domain, existing_variable, existing_domain) ==
    LET shared_sections == proposed_variable.sections \cap existing_variable.sections
    IN IF shared_sections = {} THEN FALSE
       ELSE proposed_domain.timeslot.timeslot_id = existing_domain.timeslot.timeslot_id

\* fault: only a proposed Project is checked, not a Project placed earlier
ProjectDayProposedOnly(proposed_variable, proposed_domain, assignment) ==
    LET proposed_year == FirstYear(proposed_variable.sections)
        proposed_day == proposed_domain.timeslot.day
        proposed_is_project == proposed_variable.course.type = "Project"
    IN \E i \in 1..Len(assignment) :
          /\ proposed_year = FirstYear(assignment[i].variable.sections)
          /\ proposed_day = assignment[i].domain.timeslot.day
          /\ proposed_is_project

_check_project_day_conflict(proposed_variable, proposed_domain, assignment) ==
    LET proposed_year == FirstYear(proposed_variable.sections)
        proposed_day == proposed_domain.timeslot.day
        proposed_is_project == proposed_variable.course.type = "Project"
    IN \E i \in 1..Len(assignment) :
          LET existing_year == FirstYear(assignment[i].variable.sections)
              existing_day == assignment[i].domain.timeslot.day
              existing_is_project == assignment[i].variable.course.type = "Project"
          IN /\ proposed_year = existing_year
             /\ proposed_day = existing_day
             /\ proposed_is_project \/ existing_is_project

Verdict(ok, msg) == [is_valid |-> ok, conflict_msg |-> msg]

\* fault: return (True, None) inside the loop, so that the first entry alone
\* is checked
ConsistentLoopFirstOnly(variable, domain, entries) ==
    IF entries = <<>> THEN Verdict(TRUE, None)
    ELSE LET e == Head(entries)
         IN IF _check_instructor_conflict(domain, e.domain)
            THEN Verdict(FALSE, "Instructor Conflict")
            ELSE IF _check_room_conflict(domain, e.domain)
            THEN Verdict(FALSE, "Room Conflict")
            ELSE IF _check_section_conflict(variable, domain, e.variable, e.domain)
            THEN Verdict(FALSE, "Section Conflict")
            ELSE Verdict(TRUE, None)

RECURSIVE ConsistentLoop(_, _, _)
\* the loop of lines 51-57 over the remaining entries of the assignment
ConsistentLoop(variable, domain, entries) ==
    IF entries = <<>> THEN Verdict(TRUE, None)
    ELSE LET e == Head(entries)
         IN IF _check_instructor_conflict(domain, e.domain)
            THEN Verdict(FALSE, "Instructor Conflict")
            ELSE IF _check_room_conflict(domain, e.domain)
            THEN Verdict(FALSE, "Room Conflict")
            ELSE IF _check_section_conflict(variable, domain, e.variable, e.domain)
            THEN Verdict(FALSE, "Section Conflict")
            ELSE ConsistentLoop(variable, domain, Tail(entries))

\* fault: the project-day check made after the loop over the entries
ProjectDayCheckedLast(variable, domain, assignment) ==
    LET pairwise == ConsistentLoop(variable, domain, assignment)
    IN IF ~pairwise.is_valid THEN pairwise
       ELSE IF _check_project_day_conflict(variable, domain, assignment)
       THEN Verdict(FALSE, "Project Conflict")
       ELSE Verdict(TRUE, None)

is_consistent(variable, domain, assignment) ==
    IF _check_project_day_conflict(variable, domain, assignment)
    THEN Verdict(FALSE, "Project Conflict")
    ELSE ConsistentLoop(variable, domain, assignment)

\* ------------------------------------------------------------------------
\* CSPSolver._format_solution: one ScheduledClass per entry, in dict order
\* ------------------------------------------------------------------------
ScheduledClass(variable, domain) ==
    [course |-> variable.course, timeslot |-> domain.timeslot, room |-> domain.room,
     instructor |-> domain.instructor, sections |-> variable.sections]

_format_solution(assignment) ==
    [i \in 1..Len(assignment) |-> ScheduledClass(assignment[i].variable, assignment[i].domain)]

\* ------------------------------------------------------------------------
\* constraints.py: soft constraint scoring (scores in units of 1/ScoreScale)
\* ------------------------------------------------------------------------
\* the keys (year, section_id) of section_timeslot_map
SectionKeys(schedule) ==
    {<<s.year, s.section_id>> : s \in UNION {schedule[i].sections : i \in 1..Len(schedule)}}

\* section_timeslot_map[key]: the time slots of the classes of the section
section_timeslot_map(schedule, key) ==
    LET own == {i \in 1..Len(schedule) :
                    \E s \in schedule[i].sections : <<s.year, s.section_id>> = key}
        idx == SelectSeqBy([i \in 1..Len(schedule) |-> i], own)
    IN [j \in 1..Len(idx) |-> schedule[idx[j]].timeslot]

RECURSIVE SumOver(_, _)
\* the sum of F[x] over the set S
SumOver(F, S) ==
    IF S = {} THEN 0
    ELSE LET x == CHOOSE y \in S : TRUE IN F[x] + SumOver(F, S \ {x})

RECURSIVE InsertByStart(_, _)
InsertByStart(ts, sorted) ==
    IF sorted = <<>> THEN <<ts>>
    ELSE IF ts.start_time < Head(sorted).start_time THEN <<ts>> \o sorted
    ELSE <<Head(sorted)>> \o InsertByStart(ts, Tail(sorted))

RECURSIVE SortByStart(_)
\* list.sort(key=start_time): stable, ascending
SortByStart(tss) ==
    IF tss = <<>> THEN <<>>
    ELSE InsertByStart(tss[Len(tss)], SortByStart(SubSeq(tss, 1, Len(tss) - 1)))

\* fault: the test of line 177 left out, every gap size is added
DayGapsUnclamped(daily_timeslots) ==
    IF Len(daily_timeslots) < 2 THEN 0
    ELSE LET sorted == SortByStart(daily_timeslots)
             slot_indices == [i \in 1..Len(sorted) |-> SLOT_ORDER[sorted[i].start_time]]
             gap_size(i) == (slot_indices[i + 1] - slot_indices[i]) - 1
         IN SumSeq([i \in 1..(Len(slot_indices) - 1) |-> gap_size(i)])

\* the gap units of one day of one section (lines 171-178)
DayGaps(daily_timeslots) ==
    IF Len(daily_timeslots) < 2 THEN 0
    ELSE LET sorted == SortByStart(daily_timeslots)
             slot_indices == [i \in 1..Len(sorted) |-> SLOT_ORDER[sorted[i].start_time]]
             gap_size(i) == (slot_indices[i + 1] - slot_indices[i]) - 1
         IN SumSeq([i \in 1..(Len(slot_indices) - 1) |->
                        IF gap_size(i) > 0 THEN gap_size(i) ELSE 0])

OnDay(timeslots, day) ==
    SelectSeqBy(timeslots, {ts \in Range(timeslots) : ts.day = day})

_calculate_student_gap_penalty(schedule) ==
    LET PerSection == [key \in SectionKeys(schedule) |->
            SumSeq([d \in 1..Len(DayOfWeek) |->
                        DayGaps(OnDay(section_timeslot_map(schedule, key), DayOfWeek[d]))])]
    IN _GAP_PENALTY * ScoreScale * SumOver(PerSection, SectionKeys(schedule))

\* the keys of section_timeslot_map in insertion order (lines 149-152)
SectionKeySeq(schedule) ==
    DistinctInOrder(
        Flatten([i \in 1..Len(schedule) |->
            LET secs == IterOrder(schedule[i].sections)
            IN [j \in 1..Len(secs) |-> <<secs[j].year, secs[j].section_id>>]]), {})

\* the keys of day_grouping in insertion order (lines 166-168)
DaySeq(timeslots) == DistinctInOrder([i \in 1..Len(timeslots) |-> timeslots[i].day], {})

\* line 173: SLOT_ORDER[ts.start_time] raises KeyError at the first time slot,
\* in sorted order, whose start time is not a key; None when nothing is raised
DayKeyError(daily_timeslots) ==
    IF Len(daily_timeslots) < 2 THEN None
    ELSE LET sorted == SortByStart(daily_timeslots)
             missing == SelectSeqBy(sorted, {ts \in Range(sorted) :
                                                ts.start_time \notin DOMAIN SLOT_ORDER})
         IN IF missing = <<>> THEN None ELSE KeyError(missing[1].start_time)

RECURSIVE FirstRaised(_)
\* the first exception of a sequence of outcomes, None when there is none
FirstRaised(outcomes) ==
    IF outcomes = <<>> THEN None
    ELSE IF Head(outcomes) # None THEN Head(outcomes)
    ELSE FirstRaised(Tail(outcomes))

\* the exception _calculate_student_gap_penalty raises, None when it returns
student_gap_penalty_error(schedule) ==
    LET keys == SectionKeySeq(schedule)
    IN FirstRaised(Flatten([k \in 1..Len(keys) |->
            LET timeslots == section_timeslot_map(schedule, keys[k])
                days == DaySeq(timeslots)
            IN [d \in 1..Len(days) |-> DayKeyError(OnDay(timeslots, days[d]))]]))

_calculate_undesirable_slot_penalty(schedule) ==
    LET first_last_slots_count ==
            Cardinality({i \in 1..Len(schedule) :
                /\ schedule[i].timeslot.start_time \in DOMAIN SLOT_ORDER
                /\ SLOT_ORDER[schedule[i].timeslot.start_time] \in {0, 3}})
    IN first_last_slots_count * _UNDESIRABLE_SLOT_PENALTY * ScoreScale

\* fault: statistics.pstdev, the population standard deviation (n in the
\* denominator)
pstdev(counts) ==
    LET n == Len(counts)
        total == SumSeq(counts)
        squares == SumSeq([i \in 1..n |-> counts[i] * counts[i]])
    IN ISqrt(((n * squares - total * total) * ScoreScale * ScoreScale) \div (n * n))

\* statistics.stdev: the sample standard deviation (n - 1 in the denominator)
stdev(counts) ==
    LET n == Len(counts)
        total == SumSeq(counts)
        squares == SumSeq([i \in 1..n |-> counts[i] * counts[i]])
    IN ISqrt(((n * squares - total * total) * ScoreScale * ScoreScale) \div (n * (n - 1)))

_calculate_distribution_penalty(schedule) ==
    LET PerSection == [key \in SectionKeys(schedule) |->
            LET class_counts_per_day == [d \in 1..Len(DayOfWeek) |->
                    Len(OnDay(section_timeslot_map(schedule, key), DayOfWeek[d]))]
            IN IF Len(class_counts_per_day) < 2 THEN 0 ELSE stdev(class_counts_per_day)]
    IN SumOver(PerSection, SectionKeys(schedule))

\* the exception calculate_solution_score raises, None when it returns a score
solution_score_error(schedule) == student_gap_penalty_error(schedule)

calculate_solution_score(schedule) ==
    _calculate_student_gap_penalty(schedule)
      + _calculate_undesirable_slot_penalty(schedule)
      + _calculate_distribution_penalty(schedule)

\* ------------------------------------------------------------------------
\* The solver as a state machine
\* ------------------------------------------------------------------------
FIND_FIRST == "find_first"
OPTIMIZE == "optimize"
SolverMode == {FIND_FIRST, OPTIMIZE}

VARIABLES
    data,                       \* self.data
    mode,                       \* self.mode
    unscheduled_sections_map,   \* self.unscheduled_sections_map
    best_assignment,            \* self.best_assignment
    best_score,                 \* self.best_score
    search_terminated,          \* self.search_terminated
    stack,                      \* the _backtrack frames in flight, innermost last
    ret,                        \* how the last finished _backtrack call ended: the
                                \* value it returned, or the exception it raised
    phase,                      \* "ready", "search", "finish" (back in solve), "done"
    result,                     \* how solve ended: None or a Solution returned, or
                                \* the exception raised
    op,                         \* what the last step did
    recorded,                   \* the best-result slot when the flag was set
    first                       \* the outcome of an earlier solve call, if any

vars == <<data, mode, unscheduled_sections_map, best_assignment, best_score,
          search_terminated, stack, ret, phase, result, op, recorded, first>>

solver == <<data, mode, unscheduled_sections_map>>

NotYet == [pending |-> TRUE]

Solution(schedule, score) == [schedule |-> schedule, score |-> score]

Frame(assignment, map) ==
    [assignment |-> assignment, unscheduled_sections_map |-> map, pc |-> "entry",
     course |-> None, domains |-> <<>>, di |-> 0, groups |-> <<>>, gi |-> 0]

Top == stack[Len(stack)]

\* replace the innermost frame
WithTop(f) == [stack EXCEPT ![Len(stack)] = f]

\* fault: any() in place of all()
AnyScheduled(map) == \E i \in 1..Len(map) : map[i].sections = {}

\* all(not sections for sections in unscheduled_sections_map.values())
AllScheduled(map) == \A i \in 1..Len(map) : map[i].sections = {}

\* CSPSolver.__init__
Init ==
    /\ data \in TimetableData
    /\ mode \in SolverMode
    /\ unscheduled_sections_map = _initialize_internal_lookups(data)
    /\ best_assignment = None
    /\ best_score = Inf
    /\ search_terminated = FALSE
    /\ stack = <<>>
    /\ ret = None
    /\ phase = "ready"
    /\ result = NotYet
    /\ op = "init"
    /\ recorded = None
    /\ first = None

\* solve, lines 59-62: the root call of _backtrack
Solve ==
    /\ phase = "ready"
    /\ stack' = << Frame(<<>>, unscheduled_sections_map) >>
    /\ phase' = "search"
    /\ op' = "solve"
    /\ UNCHANGED <<solver, best_assignment, best_score, search_terminated, ret, result,
                   recorded, first>>

\* the innermost frame returns v to its caller
Return(v) ==
    /\ stack' = IF Len(stack) = 1 THEN <<>>
                ELSE [SubSeq(stack, 1, Len(stack) - 1) EXCEPT ![Len(stack) - 1].pc = "resume"]
    /\ ret' = v
    /\ phase' = IF Len(stack) = 1 THEN "finish" ELSE phase

\* an exception raised in the innermost frame passes through every frame (no
\* frame of _backtrack has a handler) and reaches the handler of solve, line 77
Raise(e) ==
    /\ stack' = <<>>
    /\ ret' = e
    /\ phase' = "finish"

AtEntry == phase = "search" /\ Top.pc = "entry"

\* fault: the checks of lines 172-177 are made in both modes
TimeoutAppliesAlways(solver_mode) == TRUE

\* _backtrack, line 171: the flag and the elapsed time are looked at in
\* OPTIMIZE mode only
TimeoutApplies(solver_mode) == solver_mode = OPTIMIZE

\* _backtrack, lines 171-177: the flag is set already, or the elapsed time
\* exceeds the timeout and the flag is set now; either way the frame returns None
TimeoutCheck ==
    /\ AtEntry
    /\ TimeoutApplies(mode)
    /\ search_terminated' = TRUE
    /\ recorded' = IF search_terminated THEN recorded
                   ELSE [best_assignment |-> best_assignment, best_score |-> best_score]
    /\ Return(None)
    /\ op' = IF search_terminated THEN "terminated" ELSE "timeout"
    /\ UNCHANGED <<solver, best_assignment, best_score, result, first>>

\* fault: the loops do not look at the flag
CancelledNever(solver_mode, terminated) == FALSE

\* _backtrack, lines 199 and 201: the loops stop once the flag is set
Cancelled(solver_mode, terminated) == solver_mode = OPTIMIZE /\ terminated

\* fault: <= in place of < at line 185, a completion that ties with the
\* recorded best replaces it
ImprovesOrTies(score, recorded_best) == score <= recorded_best

\* fault: the comparison of line 185 reversed, the worst completion is kept
ImprovesReversed(score, recorded_best) ==
    recorded_best = Inf \/ score > recorded_best

\* fault: solve returns what the root call returned in OPTIMIZE mode too
FinalFromRootCall(solver_mode, best, returned) == returned

\* solve, lines 64-65: the assignment the Solution is built from
FinalAssignment(solver_mode, best, returned) ==
    IF solver_mode = OPTIMIZE THEN best ELSE returned

\* fault: line 187 left out, the assignment is recorded without its score
NewBestScoreNotWritten(score, recorded_best) == recorded_best

\* _backtrack, line 187: the score recorded with a new best assignment
NewBestScore(score, recorded_best) == score

\* _backtrack, line 185: the completion beats the recorded best
Improves(score, recorded_best) == score < recorded_best

\* the frame passed the checks of lines 171-177
PastTimeout == AtEntry /\ (TimeoutApplies(mode) => ~search_terminated)

\* _backtrack, lines 179-189: every course is fully scheduled
Leaf ==
    /\ PastTimeout
    /\ AllScheduled(Top.unscheduled_sections_map)
    /\ IF mode = FIND_FIRST
       THEN /\ Return(Some(Top.assignment))
            /\ op' = "leaf"
            /\ UNCHANGED <<best_assignment, best_score>>
       ELSE LET solution == _format_solution(Top.assignment)
                score == calculate_solution_score(solution)
            IN IF solution_score_error(solution) # None
               THEN /\ Raise(solution_score_error(solution))
                    /\ op' = "raise"
                    /\ UNCHANGED <<best_assignment, best_score>>
               ELSE /\ IF Improves(score, best_score)
                       THEN /\ best_score' = NewBestScore(score, best_score)
                            /\ best_assignment' = Some(Top.assignment)
                            /\ op' = "leaf_write"
                       ELSE /\ UNCHANGED <<best_assignment, best_score>>
                            /\ op' = "leaf"
                    /\ Return(None)
    /\ UNCHANGED <<solver, search_terminated, result, recorded, first>>

\* _backtrack, lines 191-196: choose the course of this frame
SelectCourse ==
    /\ PastTimeout
    /\ ~AllScheduled(Top.unscheduled_sections_map)
    /\ LET selection == _select_next_course_to_schedule(data, Top.unscheduled_sections_map)
       IN IF selection = None \/ selection.domains = <<>>
          THEN /\ Return(None)
               /\ op' = "dead_end"
          ELSE /\ stack' = WithTop([Top EXCEPT !.course = selection.course,
                                               !.domains = selection.domains,
                                               !.di = 1, !.pc = "domain"])
               /\ op' = "select"
               /\ UNCHANGED <<ret, phase>>
    /\ UNCHANGED <<solver, best_assignment, best_score, search_terminated, result, recorded, first>>

\* fault: the inner loop runs over the bundles in the reverse of the order the
\* generator yields them
section_groups_reversed(sections_to_schedule, room) ==
    LET groups == _form_valid_groups(sections_to_schedule, room)
    IN [i \in 1..Len(groups) |-> groups[Len(groups) + 1 - i]]

\* fault: the bundles come in another order in a later run (the generator's
\* ordering is not fixed from run to run)
section_groups_per_run(sections_to_schedule, room) ==
    LET groups == _form_valid_groups(sections_to_schedule, room)
    IN IF first = None THEN groups
       ELSE [i \in 1..Len(groups) |-> groups[Len(groups) + 1 - i]]

\* _backtrack, line 200: the bundles the inner loop runs over, in the order the
\* generator yields them
section_groups(sections_to_schedule, room) ==
    _form_valid_groups(sections_to_schedule, room)

\* _backtrack, lines 198-200 and 221: the outer loop takes its next Domain value
NextDomain ==
    /\ phase = "search"
    /\ Top.pc = "domain"
    /\ IF Top.di > Len(Top.domains)
       THEN /\ Return(None)
            /\ op' = "exhausted"
       ELSE IF Cancelled(mode, search_terminated)
       THEN /\ Return(None)
            /\ op' = "unwind"
       ELSE /\ stack' = WithTop([Top EXCEPT
                    !.groups = section_groups(DictGet(Top.unscheduled_sections_map, Top.course),
                                            Top.domains[Top.di].room),
                    !.gi = 1, !.pc = "group"])
            /\ op' = "domain"
            /\ UNCHANGED <<ret, phase>>
    /\ UNCHANGED <<solver, best_assignment, best_score, search_terminated, result, recorded, first>>

\* fault: the bundle is not taken out of the pending set
updated_set_keeps_bundle(original_set, section_group) == original_set

\* _backtrack, line 212: the pending set of the course without the bundle
updated_set(original_set, section_group) == original_set \ section_group

\* fault: new_assignment = assignment without copy(), so that the write of line
\* 208 lands in the caller's dict
CallerSharesAssignment(frame, new_assignment, new_unscheduled_map) ==
    [frame EXCEPT !.pc = "wait", !.assignment = new_assignment]

\* _backtrack, lines 207-213: the caller while the recursive call runs; the
\* writes of lines 208 and 213 go to a copy and a deepcopy, the caller's own
\* assignment and pending-work map stay as they are
CallerAtCall(frame, new_assignment, new_unscheduled_map) ==
    [frame EXCEPT !.pc = "wait"]

\* _backtrack, lines 200-215: the inner loop takes the next bundle, checks the
\* candidate and recurses when it is consistent
NextGroup ==
    /\ phase = "search"
    /\ Top.pc = "group"
    /\ IF Top.gi > Len(Top.groups)
       THEN /\ stack' = WithTop([Top EXCEPT !.di = @ + 1, !.pc = "domain"])
            /\ op' = "groups_done"
            /\ UNCHANGED <<ret, phase>>
       ELSE IF Cancelled(mode, search_terminated)
       THEN /\ Return(None)
            /\ op' = "unwind"
       ELSE LET domain == Top.domains[Top.di]
                section_group == Top.groups[Top.gi]
                variable == Variable(Top.course, section_group)
                verdict == is_consistent(variable, domain, Top.assignment)
                new_assignment ==
                    Append(Top.assignment, [variable |-> variable, domain |-> domain])
                new_unscheduled_map ==
                    DictSet(Top.unscheduled_sections_map, Top.course,
                            updated_set(DictGet(Top.unscheduled_sections_map, Top.course),
                                        section_group))
            IN IF verdict.is_valid
               THEN /\ stack' = Append(WithTop(CallerAtCall(Top, new_assignment,
                                                            new_unscheduled_map)),
                                       Frame(new_assignment, new_unscheduled_map))
                    /\ op' = "call"
                    /\ UNCHANGED <<ret, phase>>
               ELSE /\ stack' = WithTop([Top EXCEPT !.gi = @ + 1])
                    /\ op' = "reject"
                    /\ UNCHANGED <<ret, phase>>
    /\ UNCHANGED <<solver, best_assignment, best_score, search_terminated, result, recorded, first>>

\* _backtrack, lines 215-218: the recursive call has returned
Resume ==
    /\ phase = "search"
    /\ Top.pc = "resume"
    /\ IF mode = FIND_FIRST /\ ret # None
       THEN /\ Return(ret)
            /\ op' = "propagate"
       ELSE /\ stack' = WithTop([Top EXCEPT !.gi = @ + 1, !.pc = "group"])
            /\ op' = "resume"
            /\ UNCHANGED <<ret, phase>>
    /\ UNCHANGED <<solver, best_assignment, best_score, search_terminated, result, recorded, first>>

\* fault: `if final_assignment is None` in place of the truth test of line 67
NotGivenIsNone(final_assignment) == final_assignment = None

\* solve, line 67: `not final_assignment` holds of None and of the empty dict
NotGiven(final_assignment) ==
    final_assignment = None \/ final_assignment.some = <<>>

\* solve, lines 64-78: the root call has returned, or an exception has reached
\* the handler
SolveReturn ==
    /\ phase = "finish"
    /\ LET final_assignment == FinalAssignment(mode, best_assignment, ret)
       IN result' =
            IF IsRaised(ret) THEN ValueError(ret)
            ELSE IF NotGiven(final_assignment) THEN None
            ELSE LET solution == _format_solution(final_assignment.some)
                 IN IF mode = OPTIMIZE THEN Solution(solution, best_score)
                    ELSE IF solution_score_error(solution) # None
                    THEN ValueError(solution_score_error(solution))
                    ELSE Solution(solution, calculate_solution_score(solution))
    /\ phase' = "done"
    /\ op' = "solve_return"
    /\ UNCHANGED <<solver, best_assignment, best_score, search_terminated, stack, ret, recorded,
                   first>>

Next ==
    \/ Solve
    \/ TimeoutCheck
    \/ Leaf
    \/ SelectCourse
    \/ NextDomain
    \/ NextGroup
    \/ Resume
    \/ SolveReturn

\* one solve call on a freshly constructed solver
Spec == Init /\ [][Next]_vars

\* CSPSolver.__init__ with data that has two time slots on one day at one start
\* time
InitTwin ==
    /\ data \in TwinTimetableData
    /\ mode \in SolverMode
    /\ unscheduled_sections_map = _initialize_internal_lookups(data)
    /\ best_assignment = None
    /\ best_score = Inf
    /\ search_terminated = FALSE
    /\ stack = <<>>
    /\ ret = None
    /\ phase = "ready"
    /\ result = NotYet
    /\ op = "init"
    /\ recorded = None
    /\ first = None

\* one solve call on a solver constructed with such data
SpecTwin == InitTwin /\ [][Next]_vars

\* the steps of a solve call whose timeout does not fire
NextNoTimeout ==
    \/ Solve
    \/ Leaf
    \/ SelectCourse
    \/ NextDomain
    \/ NextGroup
    \/ Resume
    \/ SolveReturn

\* the program is sequential and goes on to its next statement until solve has
\* returned: weak fairness of NextNoTimeout, with its enabling condition (solve
\* has not returned) written out, ENABLED of the search steps being costly to
\* evaluate
Proceeds == []<>(phase = "done") \/ []<><<NextNoTimeout>>_vars

\* one solve call whose timeout does not fire: the caller makes the call, and
\* the program runs on
SpecNoTimeout == Init /\ [][NextNoTimeout]_vars /\ WF_vars(Solve) /\ Proceeds

\* CSPSolver.__init__ with data that has a start time SLOT_ORDER does not have
InitMalformed ==
    /\ data \in MalformedTimetableData
    /\ mode \in SolverMode
    /\ unscheduled_sections_map = _initialize_internal_lookups(data)
    /\ best_assignment = None
    /\ best_score = Inf
    /\ search_terminated = FALSE
    /\ stack = <<>>
    /\ ret = None
    /\ phase = "ready"
    /\ result = NotYet
    /\ op = "init"
    /\ recorded = None
    /\ first = None

\* one solve call on a solver constructed with such data
SpecMalformed == InitMalformed /\ [][Next]_vars

\* ------------------------------------------------------------------------
\* The Grouping Generator on its own: one frame whose course has the pending
\* set, one Domain value with the room, the inner loop consuming the generator
\* without placing anything
\* ------------------------------------------------------------------------
GeneratorSections ==
    { Section(1, 1, 1), Section(2, 1, 1), Section(3, 2, 1), Section(4, 2, 1),
      Section(5, 1, 1) }

GeneratorRooms ==
    { None, Room(1, {"Lecture"}, 10), Room(1, {"Lecture"}, 15),
      Room(1, {"Lecture"}, 30), Room(1, {"Lecture"}, 45) }

\* a frame of _backtrack at line 198, about to run the loops over one Domain
\* value with the room, for a course with the pending set
InitGenerator ==
    \E pending \in SUBSET GeneratorSections, room \in GeneratorRooms :
        LET course == IF room = None THEN Course("B", "Project") ELSE Course("C", "Lecture")
            map == << [course |-> course, sections |-> pending] >>
        IN /\ data = [courses |-> CourseTable, instructors |-> <<>>,
                      rooms |-> IF room = None THEN <<>> ELSE << room >>,
                      timeslots |-> SubSeq(TimeSlotTable, 1, 1),
                      sections |-> IterOrder(GeneratorSections),
                      curriculum |-> << Curriculum(1, course.course_id) >>]
           /\ mode = FIND_FIRST
           /\ unscheduled_sections_map = map
           /\ stack = << [Frame(<<>>, map) EXCEPT
                            !.course = course,
                            !.domains = << Domain(TimeSlotTable[1], room, None) >>,
                            !.di = 1, !.pc = "domain"] >>
    /\ best_assignment = None
    /\ best_score = Inf
    /\ search_terminated = FALSE
    /\ ret = None
    /\ phase = "search"
    /\ result = NotYet
    /\ op = "select"
    /\ recorded = None
    /\ first = None

\* the inner loop takes the next bundle of the generator and goes on
NextBundle ==
    /\ phase = "search"
    /\ Top.pc = "group"
    /\ IF Top.gi > Len(Top.groups)
       THEN /\ stack' = WithTop([Top EXCEPT !.di = @ + 1, !.pc = "domain"])
            /\ op' = "groups_done"
       ELSE /\ stack' = WithTop([Top EXCEPT !.gi = @ + 1])
            /\ op' = "yield"
    /\ UNCHANGED <<solver, best_assignment, best_score, search_terminated, ret, phase, result,
                   recorded, first>>

NextGenerator ==
    \/ NextDomain
    \/ NextBundle

SpecGenerator == InitGenerator /\ [][NextGenerator]_vars

\* ------------------------------------------------------------------------
\* The Constraint Checker on its own: one frame whose Assignment grows by any
\* candidate the checker accepts; a candidate is any course with any of its
\* Domain values and any bundle of sections of one year
\* ------------------------------------------------------------------------
CheckerData ==
    [courses |-> << Course("C", "Lecture"), Course("A", "Lab"), Course("B", "Project") >>,
     instructors |-> << Instructor(1, "Professor", {"A", "C"}),
                        Instructor(2, "Teaching Assistant", {"A"}) >>,
     rooms |-> << Room(1, {"Lecture", "Lab"}, 30), Room(2, {"Lecture", "Lab"}, 30) >>,
     timeslots |-> SubSeq(TimeSlotTable, 1, 3),
     sections |-> << Section(1, 1, 1), Section(2, 1, 1), Section(1, 1, 2) >>,
     curriculum |-> <<>>]

\* sets of sections of one year: one section, a group of two, another year
CheckerBundles ==
    {b \in SUBSET Range(CheckerData.sections) :
        /\ b # {}
        /\ \A s, t \in b : s.year = t.year
        /\ b # {Section(2, 1, 1)} }

InitChecker ==
    /\ data = CheckerData
    /\ mode = FIND_FIRST
    /\ unscheduled_sections_map = <<>>
    /\ best_assignment = None
    /\ best_score = Inf
    /\ search_terminated = FALSE
    /\ stack = << Frame(<<>>, <<>>) >>
    /\ ret = None
    /\ phase = "search"
    /\ result = NotYet
    /\ op = "solve"
    /\ recorded = None
    /\ first = None

\* a candidate (Variable, Domain value) is put before the checker
Propose ==
    /\ phase = "search"
    /\ Top.pc = "entry"
    /\ \E course \in Range(data.courses), bundle \in CheckerBundles :
        \E domain \in Range(_generate_valid_domains(data, course)) :
            stack' = WithTop([Top EXCEPT !.course = course, !.domains = << domain >>,
                                         !.di = 1, !.groups = << bundle >>, !.gi = 1,
                                         !.pc = "group"])
    /\ op' = "domain"
    /\ UNCHANGED <<solver, best_assignment, best_score, search_terminated, ret, phase, result,
                   recorded, first>>

\* _backtrack, lines 203-208: the candidate is checked and, when consistent,
\* added to the Assignment
Check ==
    /\ phase = "search"
    /\ Top.pc = "group"
    /\ LET domain == Top.domains[Top.di]
           variable == Variable(Top.course, Top.groups[Top.gi])
           verdict == is_consistent(variable, domain, Top.assignment)
       IN IF verdict.is_valid /\ Len(Top.assignment) < MaxPlaced
          THEN /\ stack' = WithTop([Top EXCEPT
                        !.assignment = Append(@, [variable |-> variable, domain |-> domain]),
                        !.pc = "entry"])
               /\ op' = "call"
          ELSE /\ stack' = WithTop([Top EXCEPT !.pc = "entry"])
               /\ op' = IF verdict.is_valid THEN "call" ELSE "reject"
    /\ UNCHANGED <<solver, best_assignment, best_score, search_terminated, ret, phase, result,
                   recorded, first>>

NextChecker ==
    \/ Propose
    \/ Check

SpecChecker == InitChecker /\ [][NextChecker]_vars

\* ------------------------------------------------------------------------
\* The Variable Selector and the Domain Generator on their own: a solver with
\* any pending-work map over its courses, on which either method is called
\* ------------------------------------------------------------------------
SelectorCourses ==
    << Course("A", "Lecture"), Course("A", "Lab"), Course("A", "Tutorial"),
       Course("B", "Project"), Course("C", "Lecture") >>

SelectorInstructors ==
    { <<>>,
      << Instructor(1, "Professor", {"A", "C"}) >>,
      << Instructor(1, "Teaching Assistant", {"A", "C"}), Instructor(2, "Doctor", {"A"}),
         Instructor(3, "Professor", {"A", "B"}) >>,
      << Instructor(1, "Teaching Assistant", {"A"}),
         Instructor(2, "Teaching Assistant", {"A"}), Instructor(3, "Professor", {"C"}) >> }

SelectorRooms ==
    { <<>>,
      << Room(1, {"Lecture"}, 30) >>,
      << Room(1, {"Lab", "Tutorial"}, 30), Room(2, {"Lecture", "Lab"}, 10) >>,
      << Room(1, {"Lecture", "Lab", "Tutorial"}, 30), Room(2, {"Lecture"}, 30),
         Room(3, {"Tutorial"}, 30) >> }

SelectorData ==
    { [courses |-> SelectorCourses,
       instructors |-> ins,
       rooms |-> rms,
       timeslots |-> SubSeq(TimeSlotTable, 1, nts),
       sections |-> SubSeq(Year1Sections, 1, 1),
       curriculum |-> <<>>] :
        ins \in SelectorInstructors, rms \in SelectorRooms, nts \in 0..2 }

\* the pending-work maps: the courses as keys in the order of the list or in
\* the reverse order, each with a section pending or with none; and the empty
\* map
SelectorMaps ==
    LET n == Len(SelectorCourses)
        keys(reversed) == [i \in 1..n |->
                              SelectorCourses[IF reversed THEN n + 1 - i ELSE i]]
    IN { <<>> } \cup
       { [i \in 1..n |-> [course |-> keys(reversed)[i],
                          sections |-> IF i \in pending THEN {Section(1, 1, 1)} ELSE {}]] :
            reversed \in BOOLEAN, pending \in SUBSET (1..n) }

InitSelector ==
    /\ data \in SelectorData
    /\ mode = FIND_FIRST
    /\ unscheduled_sections_map \in SelectorMaps
    /\ best_assignment = None
    /\ best_score = Inf
    /\ search_terminated = FALSE
    /\ stack = << Frame(<<>>, unscheduled_sections_map) >>
    /\ ret = None
    /\ phase = "search"
    /\ result = NotYet
    /\ op = "solve"
    /\ recorded = None
    /\ first = None

\* _select_next_course_to_schedule is called with the map of the frame: ret is
\* what it returns
SelectorCall ==
    /\ phase = "search"
    /\ Top.pc = "entry"
    /\ ret' = _select_next_course_to_schedule(data, Top.unscheduled_sections_map)
    /\ stack' = WithTop([Top EXCEPT !.pc = "called"])
    /\ op' = "select"
    /\ UNCHANGED <<solver, best_assignment, best_score, search_terminated, phase, result,
                   recorded, first>>

\* _generate_valid_domains is called with a course: ret is the course with the
\* list it returns
DomainsCall ==
    /\ phase = "search"
    /\ Top.pc = "entry"
    /\ \E course \in Range(data.courses) :
        /\ ret' = Selection(course, _generate_valid_domains(data, course))
        /\ stack' = WithTop([Top EXCEPT !.course = course, !.pc = "called"])
    /\ op' = "domains"
    /\ UNCHANGED <<solver, best_assignment, best_score, search_terminated, phase, result,
                   recorded, first>>

NextSelector ==
    \/ SelectorCall
    \/ DomainsCall

SpecSelector == InitSelector /\ [][NextSelector]_vars

\* ------------------------------------------------------------------------
\* A second solve call, on the same solver or on a new one for the same data
\* ------------------------------------------------------------------------
Outcome == [mode |-> mode, result |-> result, search_terminated |-> search_terminated]

\* solve is called again on the same solver: nothing of the solver is reset
SolveAgain ==
    /\ phase = "done"
    /\ first = None
    /\ first' = Outcome
    /\ stack' = << Frame(<<>>, unscheduled_sections_map) >>
    /\ phase' = "search"
    /\ op' = "solve"
    /\ UNCHANGED <<solver, best_assignment, best_score, search_terminated, ret, result,
                   recorded>>

\* CSPSolver(timetable_data, FIND_FIRST) is constructed for the same data
NewSolver ==
    /\ phase = "done"
    /\ first = None
    /\ first' = Outcome
    /\ mode' = FIND_FIRST
    /\ unscheduled_sections_map' = _initialize_internal_lookups(data)
    /\ best_assignment' = None
    /\ best_score' = Inf
    /\ search_terminated' = FALSE
    /\ phase' = "ready"
    /\ op' = "init"
    /\ recorded' = None
    /\ UNCHANGED <<data, stack, ret, result>>

NextRerun ==
    \/ Next
    \/ SolveAgain
    \/ NewSolver

SpecRerun == Init /\ [][NextRerun]_vars

\* ------------------------------------------------------------------------
\* Properties
\* ------------------------------------------------------------------------
Done == phase = "done"

\* solve has returned a Solution
Returned == Done /\ result # None /\ ~IsRaised(result)

Schedule == result.schedule

Records == 1..Len(Schedule)

SectionsOfYear(year) == {s \in Range(data.sections) : s.year = year}

RecordsOf(course) == {i \in Records : Schedule[i].course = course}

\* the years whose curriculum names the course identifier
YearsRequiring(course_id) ==
    {c.year : c \in {x \in Range(data.curriculum) : x.course_id = course_id}}

\* C1: in every returned Solution, for every curriculum rule (year, course
\* identifier) and every course of that identifier in the input, each section of
\* the year is in exactly one record of the course, and the sections of that
\* year in the course's records are exactly the year's sections (all of the
\* course's sections when one year only requires it).
C1_EverySectionOnce ==
    Returned =>
        \A c \in Range(data.curriculum), course \in Range(data.courses) :
            course.course_id = c.course_id =>
                LET covered == UNION {Schedule[i].sections : i \in RecordsOf(course)}
                IN /\ \A s \in SectionsOfYear(c.year) :
                        Cardinality({i \in RecordsOf(course) : s \in Schedule[i].sections}) = 1
                   /\ {s \in covered : s.year = c.year} = SectionsOfYear(c.year)
                   /\ YearsRequiring(c.course_id) = {c.year} => covered = SectionsOfYear(c.year)

\* C1 restricted to courses that one year only requires
C1_SingleYearCourses ==
    Returned =>
        \A c \in Range(data.curriculum), course \in Range(data.courses) :
            course.course_id = c.course_id /\ YearsRequiring(c.course_id) = {c.year} =>
                LET covered == UNION {Schedule[i].sections : i \in RecordsOf(course)}
                IN /\ \A s \in SectionsOfYear(c.year) :
                        Cardinality({i \in RecordsOf(course) : s \in Schedule[i].sections}) = 1
                   /\ covered = SectionsOfYear(c.year)

\* C2: in every returned Solution two distinct records with the same (present)
\* instructor have different time slots.
C2_NoInstructorClash ==
    Returned =>
        \A i, j \in Records :
            /\ i # j
            /\ Schedule[i].instructor # None
            /\ Schedule[j].instructor # None
            /\ Schedule[i].instructor.instructor_id = Schedule[j].instructor.instructor_id
            => Schedule[i].timeslot.timeslot_id # Schedule[j].timeslot.timeslot_id

C2_Witness ==
    /\ Returned
    /\ \E i, j \in Records :
        /\ i # j
        /\ Schedule[i].instructor # None
        /\ Schedule[j].instructor # None
        /\ Schedule[i].instructor.instructor_id = Schedule[j].instructor.instructor_id

\* C3: in every returned Solution two distinct records with the same (present)
\* room have different time slots.
C3_NoRoomClash ==
    Returned =>
        \A i, j \in Records :
            /\ i # j
            /\ Schedule[i].room # None
            /\ Schedule[j].room # None
            /\ Schedule[i].room.room_id = Schedule[j].room.room_id
            => Schedule[i].timeslot.timeslot_id # Schedule[j].timeslot.timeslot_id

C3_Witness ==
    /\ Returned
    /\ \E i, j \in Records :
        /\ i # j
        /\ Schedule[i].room # None
        /\ Schedule[j].room # None
        /\ Schedule[i].room.room_id = Schedule[j].room.room_id

\* C4: in every returned Solution two distinct records whose section sets
\* intersect have different time slots.
C4_NoSectionClash ==
    Returned =>
        \A i, j \in Records :
            i # j /\ Schedule[i].sections \cap Schedule[j].sections # {}
            => Schedule[i].timeslot.timeslot_id # Schedule[j].timeslot.timeslot_id

C4_Witness ==
    /\ Returned
    /\ \E i, j \in Records :
        /\ Schedule[i].course # Schedule[j].course
        /\ Schedule[i].sections \cap Schedule[j].sections # {}

YearsOf(sections) == {s.year : s \in sections}

\* C5: in every returned Solution a Project record and any other record with
\* sections of the same academic year are on different days.
C5_ProjectDayExclusive ==
    Returned =>
        \A i, j \in Records :
            /\ i # j
            /\ Schedule[i].course.type = "Project"
            /\ YearsOf(Schedule[i].sections) \cap YearsOf(Schedule[j].sections) # {}
            => Schedule[i].timeslot.day # Schedule[j].timeslot.day

\* a Project placed after one class of its year and before another one
C5_Witness ==
    /\ Returned
    /\ \E i, j, k \in Records :
        /\ i < j /\ j < k
        /\ Schedule[j].course.type = "Project"
        /\ Schedule[i].course.type # "Project"
        /\ Schedule[k].course.type # "Project"
        /\ YearsOf(Schedule[j].sections) \cap YearsOf(Schedule[i].sections) # {}
        /\ YearsOf(Schedule[j].sections) \cap YearsOf(Schedule[k].sections) # {}

\* the records of a course partition the sections the solver was to schedule
\* for it, for every course of the initial pending-work map, and no record is
\* of another course
CompleteFor(schedule, map) ==
    /\ \A i \in 1..Len(schedule) : HasKey(map, schedule[i].course)
    /\ \A e \in 1..Len(map) :
        LET own == {i \in 1..Len(schedule) : schedule[i].course = map[e].course}
        IN /\ UNION {schedule[i].sections : i \in own} = map[e].sections
           /\ \A i, j \in own : i # j => schedule[i].sections \cap schedule[j].sections = {}
           /\ \A i \in own : schedule[i].sections # {}

\* C6: solve returns no solution, or a Solution whose records leave no course
\* of the pending-work map with a pending section (a complete assignment); in
\* both modes, also when OPTIMIZE was cut off by the timeout.
C6_CompleteOrNone ==
    Done => result = None \/ CompleteFor(Schedule, unscheduled_sections_map)

\* OPTIMIZE, cut off by the timeout, returns a Solution with several records
C6_Witness ==
    /\ Returned
    /\ mode = OPTIMIZE
    /\ search_terminated
    /\ Len(Schedule) >= 2

\* ---- C7: an oracle for "a feasible complete assignment exists" ----
Placed(course, sections, domain) == [course |-> course, sections |-> sections, domain |-> domain]

\* the four hard rules between two placed classes (spec 4.3)
Clash(p, q) ==
    LET same_slot == p.domain.timeslot.timeslot_id = q.domain.timeslot.timeslot_id
    IN \/ /\ p.domain.instructor # None /\ q.domain.instructor # None
          /\ p.domain.instructor.instructor_id = q.domain.instructor.instructor_id
          /\ same_slot
       \/ /\ p.domain.room # None /\ q.domain.room # None
          /\ p.domain.room.room_id = q.domain.room.room_id
          /\ same_slot
       \/ p.sections \cap q.sections # {} /\ same_slot
       \/ /\ p.course.type = "Project" \/ q.course.type = "Project"
          /\ YearsOf(p.sections) \cap YearsOf(q.sections) # {}
          /\ p.domain.timeslot.day = q.domain.timeslot.day

\* a bundle the Grouping Generator can yield for the room of the Domain value
LegalBundle(bundle, required, domain) ==
    /\ bundle # {}
    /\ bundle \subseteq required
    /\ IF domain.room = None THEN bundle = required
       ELSE /\ \A s, t \in bundle : s.group_number = t.group_number
            /\ Cardinality(bundle) <= domain.room.capacity \div STANDARD_SECTION_PLANNING_SIZE

RECURSIVE Completable(_, _, _)
\* the classes in placed can be extended to a clash-free complete assignment of
\* the courses in todo (entries [course, sections] of sections still to place)
Completable(dat, placed, todo) ==
    IF todo = <<>> THEN TRUE
    ELSE IF Head(todo).sections = {} THEN Completable(dat, placed, Tail(todo))
    ELSE LET course == Head(todo).course
             left == Head(todo).sections
             s0 == CHOOSE s \in left : TRUE
         IN \E bundle \in {b \in SUBSET left : s0 \in b} :
            \E domain \in Range(_generate_valid_domains(dat, course)) :
                LET new == Placed(course, bundle, domain)
                IN /\ LegalBundle(bundle, left, domain)
                   /\ \A p \in placed : ~Clash(new, p)
                   /\ Completable(dat, placed \cup {new},
                                  <<[course |-> course, sections |-> left \ bundle]>> \o Tail(todo))

FeasibleExists == Completable(data, {}, unscheduled_sections_map)

\* C7: FIND_FIRST returns a Solution whenever a complete assignment without a
\* violation of the four hard rules exists.
C7_FindFirstComplete ==
    Done /\ mode = FIND_FIRST /\ result = None => ~FeasibleExists

\* C7 for inputs where some course has a section to schedule
C7_WithPendingWork ==
    /\ Done
    /\ mode = FIND_FIRST
    /\ result = None
    /\ ~AllScheduled(unscheduled_sections_map)
    => ~FeasibleExists

\* C8: when OPTIMIZE ran to exhaustion without the timeout firing and
\* FIND_FIRST returns a Solution for the same data, OPTIMIZE returned a Solution
\* too and its score is at most the score of the FIND_FIRST Solution.
C8_OptimizeNoWorse ==
    /\ Returned
    /\ mode = FIND_FIRST
    /\ first # None
    /\ first.mode = OPTIMIZE
    /\ ~first.search_terminated
    => /\ first.result # None
       /\ first.result.score <= result.score

\* OPTIMIZE ran to exhaustion and found a strictly better Solution
C8_Witness ==
    /\ Returned
    /\ mode = FIND_FIRST
    /\ first # None
    /\ first.mode = OPTIMIZE
    /\ ~first.search_terminated
    /\ first.result # None
    /\ first.result.score < result.score

\* C9: when the timeout fired, solve returns the best-result slot as it was
\* when the timeout fired: that assignment formatted with that score, or no
\* solution when the slot was empty.
C9_TimeoutReturnsRecorded ==
    Done /\ search_terminated =>
        result = IF recorded.best_assignment = None THEN None
                 ELSE Solution(_format_solution(recorded.best_assignment.some),
                               recorded.best_score)

\* the timeout fired after a complete assignment was recorded
C9_Witness ==
    /\ Done
    /\ search_terminated
    /\ recorded.best_assignment # None
    /\ result # None

\* C10: once search_terminated is set, no step performs a consistency check,
\* makes a recursive call or writes the best-result slot; the flag stays set
\* and every frame that ends returns None to its caller.
C10_NoWorkAfterCancel ==
    [][search_terminated =>
          /\ op' \in {"unwind", "exhausted", "groups_done", "resume", "solve_return"}
          /\ Len(stack') <= Len(stack)
          /\ best_assignment' = best_assignment
          /\ best_score' = best_score
          /\ search_terminated'
          /\ Len(stack') < Len(stack) => ret' = None]_vars

\* frames in flight unwind after the timeout, a best result being recorded
C10_Witness ==
    /\ search_terminated
    /\ phase = "search"
    /\ Len(stack) >= 2
    /\ op = "unwind"
    /\ best_assignment # None


RolesFor(type) ==
    IF type = "Lecture" THEN {"Doctor", "Professor"}
    ELSE IF type \in {"Lab", "Tutorial"} THEN {"Teaching Assistant"}
    ELSE {}

\* a year's curriculum names the course and the year has sections
RequiredWithSections(course) ==
    \E c \in Range(data.curriculum) :
        c.course_id = course.course_id /\ SectionsOfYear(c.year) # {}

\* a non-Project course without a qualified instructor of the needed role, or
\* without a room of its session type
Unstaffed(course) ==
    /\ course.type # "Project"
    /\ \/ ~\E i \in Range(data.instructors) :
              course.course_id \in i.qualifications /\ i.role \in RolesFor(course.type)
       \/ ~\E r \in Range(data.rooms) : course.type \in r.types

SomeRequiredUnstaffed ==
    \E course \in Range(data.courses) : RequiredWithSections(course) /\ Unstaffed(course)

\* C12: when a curriculum-required course with pending sections has no
\* qualified instructor of the needed role or no room of its session type, a
\* FIND_FIRST solve never places a class (no frame but the root one, whose
\* assignment is empty) and returns no solution.
C12_UnstaffedCourseNoSolution ==
    mode = FIND_FIRST /\ SomeRequiredUnstaffed =>
        /\ Len(stack) <= 1
        /\ \A f \in 1..Len(stack) : stack[f].assignment = <<>>
        /\ op \notin {"call", "reject", "domain", "select"}
        /\ Done => result = None

\* solve returned while another required course was schedulable
C12_Witness ==
    /\ Done
    /\ mode = FIND_FIRST
    /\ SomeRequiredUnstaffed
    /\ \E course \in Range(data.courses) :
        /\ RequiredWithSections(course)
        /\ ~Unstaffed(course)
        /\ course.type # "Project"


\* ---- C13: a derived lookup that a mandatory course needs is missing ----
\* a curriculum year without sections, or a required non-Project course without
\* a room of its session type
StructuralLookupMissing ==
    \/ \E c \in Range(data.curriculum) :
          /\ SectionsOfYear(c.year) = {}
          /\ \E course \in Range(data.courses) : course.course_id = c.course_id
    \/ \E course \in Range(data.courses) :
          /\ RequiredWithSections(course)
          /\ course.type # "Project"
          /\ ~\E r \in Range(data.rooms) : course.type \in r.types

\* C13: when a required derived lookup is missing (no sections for a
\* curriculum year, no room of a needed session type), solve ends with a
\* structural error, not with an ordinary result (a Solution or no solution).
C13_FailsFast ==
    Done /\ StructuralLookupMissing => IsRaised(result)

\* ---- C14: exceptions raised inside the search or the scoring ----
\* some section has two classes on one day, one of them at a start time that
\* SLOT_ORDER does not have: the gap penalty cannot be computed
GapUndefined(schedule) ==
    \E i, j \in 1..Len(schedule) :
        /\ i # j
        /\ schedule[i].sections \cap schedule[j].sections # {}
        /\ schedule[i].timeslot.day = schedule[j].timeslot.day
        /\ schedule[i].timeslot.start_time \notin DOMAIN SLOT_ORDER

\* C14: an exception raised inside the search or the scoring, in either mode
\* and at any depth, reaches the caller of solve as one ValueError that carries
\* the exception raised; nothing but a ValueError leaves solve, and no Solution
\* is returned when an exception was raised.
C14_ExceptionsWrapped ==
    Done =>
        /\ IsRaised(ret) => result = [raised |-> "ValueError", reason |-> ret]
        /\ mode = FIND_FIRST /\ ret # None /\ GapUndefined(_format_solution(ret.some))
            => /\ IsRaised(result)
               /\ result.raised = "ValueError"
               /\ result.reason = [raised |-> "KeyError", reason |-> 1100]
        /\ IsRaised(result) => result.raised = "ValueError" /\ IsRaised(result.reason)

\* OPTIMIZE had recorded a complete assignment when a later completion raised
C14_Witness ==
    /\ Done
    /\ mode = OPTIMIZE
    /\ IsRaised(ret)
    /\ ret.raised = "KeyError"
    /\ best_assignment # None
    /\ IsRaised(result)


\* ---- C15: one Lecture course, one section, one room, one time slot ----
\* the professors and doctors qualified for the course identifier
Lecturers(course_id) ==
    {i \in Range(data.instructors) :
        course_id \in i.qualifications /\ i.role \in {"Doctor", "Professor"}}

\* the rooms that take lectures
LectureRooms == {r \in Range(data.rooms) : "Lecture" \in r.types}

\* the input of the scenario: one curriculum rule, whose course identifier has
\* the one session type Lecture, one section (of that year), one qualified
\* lecturer, one lecture room that holds a section of the planning size, one
\* time slot
SingleClassInput ==
    /\ Len(data.curriculum) = 1
    /\ {c.type : c \in {x \in Range(data.courses) :
                            x.course_id = data.curriculum[1].course_id}} = {"Lecture"}
    /\ Len(data.sections) = 1
    /\ data.sections[1].year = data.curriculum[1].year
    /\ Cardinality(Lecturers(data.curriculum[1].course_id)) = 1
    /\ Cardinality(LectureRooms) = 1
    /\ \A r \in LectureRooms : r.capacity >= STANDARD_SECTION_PLANNING_SIZE
    /\ Len(data.timeslots) = 1

\* the one record of the scenario
SingleClassRecord ==
    [course |-> Course(data.curriculum[1].course_id, "Lecture"),
     timeslot |-> data.timeslots[1],
     room |-> CHOOSE r \in LectureRooms : TRUE,
     instructor |-> CHOOSE i \in Lecturers(data.curriculum[1].course_id) : TRUE,
     sections |-> {data.sections[1]}]

\* the undesirable-slot penalty of the one class: the weight when the slot is
\* the first or the last of the day
SingleClassSlotPenalty ==
    IF data.timeslots[1].start_time \in {900, 1415} THEN 3 * ScoreScale ELSE 0

GeneratorRan == stack # <<>> /\ Top.pc = "group"

Yielded == Top.groups

PendingOfFrame == DictGet(Top.unscheduled_sections_map, Top.course)

RoomOfFrame == Top.domains[Top.di].room

InGroup(g) == {s \in PendingOfFrame : s.group_number = g}

\* min(capacity // STANDARD_SECTION_SIZE, group size)
LargestBundle(g) ==
    Min(RoomOfFrame.capacity \div STANDARD_SECTION_PLANNING_SIZE, Cardinality(InGroup(g)))

\* C16: with a room, for each group number among the pending sections, every
\* subset of the group's pending sections of a size from 1 to
\* min(capacity // 15, group size) is yielded exactly once, and no smaller
\* subset of a group comes before a larger subset of the same group.
C16_BundlesLargestFirst ==
    GeneratorRan /\ RoomOfFrame # None =>
        /\ \A g \in {s.group_number : s \in PendingOfFrame} :
             \A b \in SUBSET InGroup(g) :
                 Cardinality(b) >= 1 /\ Cardinality(b) <= LargestBundle(g) =>
                     Cardinality({i \in 1..Len(Yielded) : Yielded[i] = b}) = 1
        /\ \A i, j \in 1..Len(Yielded) :
             /\ i < j
             /\ \E s \in Yielded[i], t \in Yielded[j] : s.group_number = t.group_number
             => Cardinality(Yielded[i]) >= Cardinality(Yielded[j])

\* two sections of one group, capacity exactly twice the section size: the
\* pair has been yielded first, then each section alone
C16_Witness ==
    /\ GeneratorRan
    /\ RoomOfFrame # None
    /\ RoomOfFrame.capacity = 2 * STANDARD_SECTION_PLANNING_SIZE
    /\ PendingOfFrame = {Section(1, 1, 1), Section(2, 1, 1)}
    /\ Yielded = << {Section(1, 1, 1), Section(2, 1, 1)}, {Section(1, 1, 1)},
                    {Section(2, 1, 1)} >>
    /\ Top.gi > Len(Yielded)


\* C17: every call of solve, a second call on the same solver included, starts
\* the search with an empty Assignment, the full pending-work state, no
\* recorded best result and a cleared cancellation flag.
C17_SolveStartsFresh ==
    phase = "search" /\ op = "solve" =>
        /\ stack = << Frame(<<>>, _initialize_internal_lookups(data)) >>
        /\ best_assignment = None
        /\ best_score = Inf
        /\ ~search_terminated


\* ---- C18, C19: the verdict of the Constraint Checker on a candidate ----
\* a candidate is before the checker
CandidateAtHand == stack # <<>> /\ Top.pc = "group" /\ Top.gi <= Len(Top.groups)

CandidateVariable == Variable(Top.course, Top.groups[Top.gi])

CandidateDomain == Top.domains[Top.di]

CandidateVerdict == is_consistent(CandidateVariable, CandidateDomain, Top.assignment)

SameSlot(e) == CandidateDomain.timeslot.timeslot_id = e.domain.timeslot.timeslot_id

\* the four rules between the candidate and a placed entry (spec 4.3)
InstructorRuleBroken(e) ==
    /\ CandidateDomain.instructor # None
    /\ e.domain.instructor # None
    /\ CandidateDomain.instructor.instructor_id = e.domain.instructor.instructor_id
    /\ SameSlot(e)

RoomRuleBroken(e) ==
    /\ CandidateDomain.room # None
    /\ e.domain.room # None
    /\ CandidateDomain.room.room_id = e.domain.room.room_id
    /\ SameSlot(e)

SectionRuleBroken(e) ==
    CandidateVariable.sections \cap e.variable.sections # {} /\ SameSlot(e)

ProjectDayRuleBroken(e) ==
    /\ CandidateVariable.course.type = "Project" \/ e.variable.course.type = "Project"
    /\ YearsOf(CandidateVariable.sections) \cap YearsOf(e.variable.sections) # {}
    /\ CandidateDomain.timeslot.day = e.domain.timeslot.day

Placements == Range(Top.assignment)

\* a Project is placed for the candidate's year on the candidate's day, and
\* the candidate is not a Project
ProjectOnCandidateDay ==
    /\ CandidateVariable.course.type # "Project"
    /\ \E e \in Placements :
        /\ e.variable.course.type = "Project"
        /\ YearsOf(e.variable.sections) \cap YearsOf(CandidateVariable.sections) # {}
        /\ e.domain.timeslot.day = CandidateDomain.timeslot.day

\* C18: when the Assignment has a Project on some day for a year and the
\* candidate is a non-Project class of that year on that day, the checker
\* answers inconsistent with the project-day tag, whatever the time slots and
\* whatever other conflicts there are.
C18_ProjectDayTag ==
    CandidateAtHand /\ ProjectOnCandidateDay =>
        CandidateVerdict = [is_valid |-> FALSE, conflict_msg |-> "Project Conflict"]

\* the Project is in another time slot of the day, and the candidate has an
\* instructor and a room conflict with another placed entry
C18_Witness ==
    /\ CandidateAtHand
    /\ ProjectOnCandidateDay
    /\ \E e \in Placements : e.variable.course.type = "Project" /\ ~SameSlot(e)
    /\ \E e \in Placements : InstructorRuleBroken(e) /\ RoomRuleBroken(e)

\* C19: the checker answers consistent exactly when no placed entry breaks
\* one of the four rules with the candidate; the tag of an inconsistent answer
\* names a rule that a placed entry breaks; a tag is there if and only if the
\* flag is false.
C19_VerdictMatchesRules ==
    CandidateAtHand =>
        /\ CandidateVerdict.is_valid <=>
               ~\E e \in Placements :
                    \/ InstructorRuleBroken(e) \/ RoomRuleBroken(e)
                    \/ SectionRuleBroken(e) \/ ProjectDayRuleBroken(e)
        /\ IF CandidateVerdict.is_valid THEN CandidateVerdict.conflict_msg = None
           ELSE LET tag == CandidateVerdict.conflict_msg
                IN /\ tag \in {"Instructor Conflict", "Room Conflict", "Section Conflict",
                                "Project Conflict"}
                   /\ tag = "Instructor Conflict"
                        => \E e \in Placements : InstructorRuleBroken(e)
                   /\ tag = "Room Conflict" => \E e \in Placements : RoomRuleBroken(e)
                   /\ tag = "Section Conflict" => \E e \in Placements : SectionRuleBroken(e)
                   /\ tag = "Project Conflict"
                        => \E e \in Placements : ProjectDayRuleBroken(e)

\* the first placed entry is compatible with the candidate, the second one is
\* in its room at its time
C19_Witness ==
    /\ CandidateAtHand
    /\ Len(Top.assignment) = 2
    /\ ~InstructorRuleBroken(Top.assignment[1]) /\ ~RoomRuleBroken(Top.assignment[1])
    /\ ~SectionRuleBroken(Top.assignment[1]) /\ ~ProjectDayRuleBroken(Top.assignment[1])
    /\ RoomRuleBroken(Top.assignment[2])
    /\ ~InstructorRuleBroken(Top.assignment[2])
    /\ CandidateVerdict.conflict_msg = "Room Conflict"


\* ---- C20: the Variables of a course and its pending set ----
\* the positions of the course's Variables in an Assignment
VariablesOf(assignment, course) ==
    {i \in 1..Len(assignment) : assignment[i].variable.course = course}

\* C20: in every _backtrack frame, for each course, the section sets of the
\* course's Variables in the frame's Assignment are pairwise disjoint and
\* disjoint from the course's pending set in the frame, and their union
\* together with the pending set is the section set the course had in the
\* pending-work state the search started from.
C20_PartitionInEveryFrame ==
    \A f \in 1..Len(stack) :
        /\ \A i \in 1..Len(stack[f].assignment) :
             HasKey(unscheduled_sections_map, stack[f].assignment[i].variable.course)
        /\ \A e \in 1..Len(unscheduled_sections_map) :
             LET course == unscheduled_sections_map[e].course
                 assignment == stack[f].assignment
                 own == VariablesOf(assignment, course)
                 pending == DictGet(stack[f].unscheduled_sections_map, course)
             IN /\ \A i, j \in own :
                      i # j => assignment[i].variable.sections
                                  \cap assignment[j].variable.sections = {}
                /\ \A i \in own : assignment[i].variable.sections \cap pending = {}
                /\ UNION {assignment[i].variable.sections : i \in own} \cup pending
                      = unscheduled_sections_map[e].sections

\* a frame where one course has two Variables placed and another course has
\* sections pending
C20_Witness ==
    \E f \in 1..Len(stack) :
        /\ \E i, j \in 1..Len(stack[f].assignment) :
             /\ i # j
             /\ stack[f].assignment[i].variable.course = stack[f].assignment[j].variable.course
        /\ \E e \in 1..Len(stack[f].unscheduled_sections_map) :
             stack[f].unscheduled_sections_map[e].sections # {}


\* C21: no step changes the Assignment or the pending-work map of a frame in
\* flight: when a recursive call returns (with an assignment, with None, or cut
\* off by the timeout) its caller has the Assignment and the map it had before
\* the call, and goes on to the next candidate with them; the best-result slot
\* changes only when a completion is recorded, and then to that completion.
C21_CallerStateKept ==
    [][/\ \A f \in 1..Len(stack) :
             f <= Len(stack') =>
                 /\ stack'[f].assignment = stack[f].assignment
                 /\ stack'[f].unscheduled_sections_map = stack[f].unscheduled_sections_map
       /\ best_assignment' # best_assignment =>
             /\ op' = "leaf_write"
             /\ best_assignment' = [some |-> Top.assignment]]_vars

\* OPTIMIZE: a child call has returned after a completion was recorded, and the
\* caller, which has classes placed, is at its next candidate
C21_Witness ==
    /\ phase = "search"
    /\ mode = OPTIMIZE
    /\ op = "resume"
    /\ Top.gi >= 2
    /\ Top.assignment # <<>>
    /\ best_assignment # None


\* ---- C22: what the Variable Selector returns for a pending-work map ----
\* the selector has been called with the map of the frame
SelectorCalled == stack # <<>> /\ Top.pc = "called" /\ op = "select"

\* the courses of the map that have pending sections
PendingCourses ==
    {Top.unscheduled_sections_map[i].course :
        i \in {j \in 1..Len(Top.unscheduled_sections_map) :
                  Top.unscheduled_sections_map[j].sections # {}}}

\* C22: the selector returns no candidate when no course has pending
\* sections; otherwise a course that has pending sections, paired with the
\* Domain list generated for that course, the list being empty whenever some
\* course with pending sections has an empty one and never longer than the
\* list of another course with pending sections.
C22_SelectorChoice ==
    SelectorCalled =>
        IF PendingCourses = {} THEN ret = None
        ELSE /\ ret # None
             /\ ret.course \in PendingCourses
             /\ ret.domains = _generate_valid_domains(data, ret.course)
             /\ (\E c \in PendingCourses : _generate_valid_domains(data, c) = <<>>)
                    => ret.domains = <<>>
             /\ \A c \in PendingCourses :
                    Len(ret.domains) <= Len(_generate_valid_domains(data, c))

\* the course returned is not the first one with pending sections; its list is
\* not empty and shorter than the list of that one; a course without pending
\* sections comes before both
C22_Witness ==
    /\ SelectorCalled
    /\ ret # None
    /\ ret.domains # <<>>
    /\ LET map == Top.unscheduled_sections_map
       IN /\ map[1].sections = {}
          /\ \E i \in 2..Len(map) :
                /\ map[i].sections # {}
                /\ map[i].course # ret.course
                /\ Len(_generate_valid_domains(data, map[i].course)) > Len(ret.domains)
                /\ \E j \in (i + 1)..Len(map) : map[j].course = ret.course


\* ---- C23: what the Domain Generator returns for a course ----
DomainsCalled == stack # <<>> /\ Top.pc = "called" /\ op = "domains"

\* the rooms whose type set has the session type of the course
RoomsFor(course) == {r \in Range(data.rooms) : course.type \in r.types}

\* the instructors qualified for the course identifier, of a role that teaches
\* the session type
InstructorsFor(course) ==
    {i \in Range(data.instructors) :
        course.course_id \in i.qualifications /\ i.role \in RolesFor(course.type)}

\* the position of an element in a sequence without repetitions
PositionIn(s, x) == CHOOSE i \in 1..Len(s) : s[i] = x

\* the Domain value d is at or before e in the order time slot, room, instructor
InDomainOrder(d, e) ==
    LET dt == PositionIn(data.timeslots, d.timeslot)
        et == PositionIn(data.timeslots, e.timeslot)
        dr == PositionIn(data.rooms, d.room)
        er == PositionIn(data.rooms, e.room)
        di == PositionIn(data.instructors, d.instructor)
        ei == PositionIn(data.instructors, e.instructor)
    IN \/ dt < et
       \/ dt = et /\ dr < er
       \/ dt = et /\ dr = er /\ di <= ei

BundleOfPending(b) == b # {} /\ b \subseteq PendingOfFrame

OneGroup(b) == \A s, t \in b : s.group_number = t.group_number

\* what the generator yields without a room: the whole pending set, once, and
\* nothing when the set is empty
WholePendingSet == IF PendingOfFrame = {} THEN <<>> ELSE << PendingOfFrame >>

\* C24 as stated: with a room and without one, every yielded subset is a
\* non-empty subset of the pending set whose sections have one group number;
\* without a room the whole pending set is yielded as the single subset, and
\* nothing when the set is empty.
C24_BundlesOfOneGroup ==
    GeneratorRan =>
        /\ \A i \in 1..Len(Yielded) : BundleOfPending(Yielded[i]) /\ OneGroup(Yielded[i])
        /\ RoomOfFrame = None => Yielded = WholePendingSet
        /\ PendingOfFrame = {} => Yielded = <<>>

\* C24 (amended): every yielded subset is a non-empty subset of the pending
\* set; with a room its sections have one group number; without a room the
\* whole pending set is yielded as the single subset, whatever the group
\* numbers in it, and nothing when the set is empty.
C24_BundlesOfOneGroupWithRoom ==
    GeneratorRan =>
        /\ \A i \in 1..Len(Yielded) :
             /\ BundleOfPending(Yielded[i])
             /\ RoomOfFrame # None => OneGroup(Yielded[i])
        /\ RoomOfFrame = None => Yielded = WholePendingSet
        /\ PendingOfFrame = {} => Yielded = <<>>

\* a room that takes two sections and a pending set with two sections of each
\* of two groups: pairs and single sections of either group have been yielded
C24_Witness ==
    /\ GeneratorRan
    /\ RoomOfFrame # None
    /\ RoomOfFrame.capacity \div STANDARD_SECTION_PLANNING_SIZE >= 2
    /\ \E g, h \in {s.group_number : s \in PendingOfFrame} :
          /\ g # h
          /\ Cardinality(InGroup(g)) >= 2
          /\ Cardinality(InGroup(h)) >= 2
    /\ Len(Yielded) >= 6
    /\ Top.gi > Len(Yielded)

\* without a room, the pending set has sections of two groups and is yielded
\* whole
C24_ProjectAcrossGroups ==
    /\ GeneratorRan
    /\ RoomOfFrame = None
    /\ ~OneGroup(PendingOfFrame)
    /\ Yielded = << PendingOfFrame >>


\* ---- C25: the search tree of _backtrack, every branch taken ----
RECURSIVE Completions(_, _, _)
\* the complete assignments of the search tree below (assignment, map), in the
\* order a depth-first walk that never stops early visits them
Completions(dat, assignment, map) ==
    IF AllScheduled(map) THEN << assignment >>
    ELSE LET selection == _select_next_course_to_schedule(dat, map)
         IN IF selection = None \/ selection.domains = <<>> THEN <<>>
            ELSE LET course == selection.course
                     pending == DictGet(map, course)
                     Below(domain, bundle) ==
                         IF is_consistent(Variable(course, bundle), domain, assignment).is_valid
                         THEN Completions(dat,
                                  Append(assignment, [variable |-> Variable(course, bundle),
                                                      domain |-> domain]),
                                  DictSet(map, course, pending \ bundle))
                         ELSE <<>>
                     OfDomain(domain) ==
                         LET bundles == _form_valid_groups(pending, domain.room)
                         IN Flatten([g \in 1..Len(bundles) |-> Below(domain, bundles[g])])
                 IN Flatten([d \in 1..Len(selection.domains) |->
                                OfDomain(selection.domains[d])])

AllCompletions == Completions(data, <<>>, unscheduled_sections_map)

ScoreOf(assignment) == calculate_solution_score(_format_solution(assignment))

\* OPTIMIZE has run to exhaustion, the timeout not firing
Exhausted == Done /\ mode = OPTIMIZE /\ ~search_terminated

\* the first completion, in visiting order, whose score no completion beats
EarliestBest(all) ==
    CHOOSE k \in 1..Len(all) :
        /\ \A i \in 1..Len(all) : ScoreOf(all[k]) <= ScoreOf(all[i])
        /\ \A i \in 1..(k - 1) : ScoreOf(all[i]) > ScoreOf(all[k])

\* on exhaustion the Solution is the earliest-visited completion of minimal
\* score among all completions of the search tree, with that score
ReturnsEarliestBest ==
    Exhausted =>
        LET all == AllCompletions
        IN /\ all # <<>> /\ all[1] # <<>> => result # None
           /\ result # None =>
                /\ all # <<>>
                /\ result = [schedule |-> _format_solution(all[EarliestBest(all)]),
                             score |-> ScoreOf(all[EarliestBest(all)])]

\* a step that changes the best-result slot records the completion of the
\* innermost frame, whose score is strictly lower than the recorded best
WritesOnlyBetter ==
    best_assignment' # best_assignment \/ best_score' # best_score =>
        /\ op' = "leaf_write"
        /\ AllScheduled(Top.unscheduled_sections_map)
        /\ best_assignment' = [some |-> Top.assignment]
        /\ best_score' = ScoreOf(Top.assignment)
        /\ best_score' < best_score

\* a step of OPTIMIZE at a completion goes on with the search: the frame
\* returns None to its caller, which takes its next candidate
GoesOnAfterCompletion ==
    /\ mode = OPTIMIZE /\ op' \in {"leaf", "leaf_write"} => ret' = None
    /\ mode = OPTIMIZE /\ phase = "search" /\ Top.pc = "resume" =>
          /\ Len(stack') = Len(stack)
          /\ stack'[Len(stack)].pc = "group"
          /\ stack'[Len(stack)].gi = Top.gi + 1

\* C25: in OPTIMIZE mode without timeout the search does not stop at a
\* completion; the best-result slot is overwritten only by a completion whose
\* score is strictly lower than the recorded best; on exhaustion the returned
\* Solution has the minimum score over all completions of the search tree and
\* is the earliest-visited completion with that score.
C25_OptimizeKeepsEarliestBest ==
    []ReturnsEarliestBest /\ [][WritesOnlyBetter /\ GoesOnAfterCompletion]_vars

\* the returned completion is not the first one visited, and a completion
\* visited after it has the same score
C25_Witness ==
    /\ Exhausted
    /\ result # None
    /\ LET all == AllCompletions
           k == EarliestBest(all)
       IN /\ k > 1
          /\ \E i \in (k + 1)..Len(all) : ScoreOf(all[i]) = ScoreOf(all[k])


\* ---- C26: which assignment FIND_FIRST returns ----
\* the root call of _backtrack has returned in FIND_FIRST mode
RootReturned == mode = FIND_FIRST /\ phase \in {"finish", "done"}

\* the root call returns the first completion of the search tree in
\* depth-first order (Domain values in the outer loop, bundles in the inner
\* one), None when the tree has no completion; a Solution has its records
FirstInDepthFirstOrder ==
    RootReturned =>
        LET all == AllCompletions
        IN /\ ret = IF all = <<>> THEN None ELSE [some |-> all[1]]
           /\ phase = "done" /\ result # None =>
                 all # <<>> /\ result.schedule = _format_solution(all[1])

\* once a recursive call has returned an assignment, each step hands it to the
\* caller: no candidate is checked and no call is made
NothingAfterSuccess ==
    mode = FIND_FIRST /\ phase = "search" /\ ret # None =>
        /\ op' = "propagate"
        /\ ret' = ret
        /\ Len(stack') = Len(stack) - 1

\* C26: the assignment FIND_FIRST returns is the first complete consistent
\* assignment in depth-first order, the candidates of a level ordered by
\* Domain value and then by bundle; after the first successful recursive
\* result no further candidate is checked at any level.
C26_FindFirstIsFirst ==
    []FirstInDepthFirstOrder /\ [][NothingAfterSuccess]_vars

\* a Solution of several records where the tree has completions with another
\* number of records than the first
C26_Witness ==
    /\ RootReturned
    /\ phase = "done"
    /\ result # None
    /\ Len(result.schedule) >= 2
    /\ LET all == AllCompletions
       IN \E i \in 2..Len(all) : Len(all[i]) # Len(all[1])


\* ---- C27: FIND_FIRST and the timeout ----
\* C27: in FIND_FIRST mode the cancellation flag is never set and no step is
\* a timeout check or an unwinding after one, whenever the timeout would fire;
\* solve ends succeeded (the root call returned a complete assignment) or
\* exhausted (the search tree has no completion).
C27_FindFirstNeverTimesOut ==
    mode = FIND_FIRST =>
        /\ ~search_terminated
        /\ op \notin {"timeout", "terminated", "unwind"}
        /\ recorded = None
        /\ Done =>
              LET all == AllCompletions
              IN IF ret # None THEN all # <<>> /\ ret.some = all[1]
                 ELSE all = <<>>

\* FIND_FIRST at the entry of a frame three calls deep, where OPTIMIZE looks at
\* the clock
C27_Witness ==
    /\ mode = FIND_FIRST
    /\ AtEntry
    /\ Len(stack) >= 3
    /\ ~search_terminated


\* ---- C28: the search ends without the timeout ----
\* the number of pending (course, section) pairs of a pending-work map
TotalPending(map) == SumSeq([i \in 1..Len(map) |-> Cardinality(map[i].sections)])

\* each call has fewer pending pairs than its caller; the bundles a frame
\* runs over are non-empty subsets of the pending set of its course; the depth
\* of the recursion is at most the number of pending pairs at the start
DescentBounded ==
    /\ \A f \in 1..(Len(stack) - 1) :
          TotalPending(stack[f + 1].unscheduled_sections_map)
              < TotalPending(stack[f].unscheduled_sections_map)
    /\ \A f \in 1..Len(stack) :
          stack[f].pc \in {"group", "wait", "resume"} =>
              \A g \in 1..Len(stack[f].groups) :
                  /\ stack[f].groups[g] # {}
                  /\ stack[f].groups[g]
                        \subseteq DictGet(stack[f].unscheduled_sections_map, stack[f].course)
    /\ Len(stack) <= TotalPending(unscheduled_sections_map) + 1

\* until solve has returned the program is at a statement that some step
\* models: the call of solve, the entry of a frame, one of its loops, the
\* return of a recursive call, or the rest of solve
AtSomeStatement ==
    ~Done =>
        \/ phase \in {"ready", "finish"}
        \/ /\ phase = "search"
           /\ stack # <<>>
           /\ Top.pc \in {"entry", "domain", "group", "resume"}
           /\ ~search_terminated

\* C28: without the timeout the search ends, for every input: each recursive
\* call has strictly fewer pending sections than its caller, every bundle
\* being non-empty and taken out of the pending set of the selected course, so
\* that the depth of the recursion is bounded by the number of pending
\* (course, section) pairs at the start; solve returns.
C28_SearchTerminates ==
    []DescentBounded /\ []AtSomeStatement /\ <>Done

\* the recursion is as deep as the bound allows: three pending pairs at the
\* start, each call having placed one section
C28_Witness ==
    /\ phase = "search"
    /\ ~search_terminated
    /\ TotalPending(unscheduled_sections_map) >= 3
    /\ Len(stack) = TotalPending(unscheduled_sections_map) + 1


\* ---- C29: the gap penalty of a returned schedule ----
\* the canonical ordinals of the classes of a section on a day, in record order
OrdinalsOn(schedule, key, day) ==
    LET own == {i \in 1..Len(schedule) :
                    /\ \E sec \in schedule[i].sections : <<sec.year, sec.section_id>> = key
                    /\ schedule[i].timeslot.day = day}
        idx == SelectSeqBy([i \in 1..Len(schedule) |-> i], own)
    IN [j \in 1..Len(idx) |-> SLOT_ORDER[schedule[idx[j]].timeslot.start_time]]

RECURSIVE InsertOrdinal(_, _)
InsertOrdinal(n, sorted) ==
    IF sorted = <<>> THEN <<n>>
    ELSE IF n < Head(sorted) THEN <<n>> \o sorted
    ELSE <<Head(sorted)>> \o InsertOrdinal(n, Tail(sorted))

RECURSIVE SortOrdinals(_)
SortOrdinals(ns) ==
    IF ns = <<>> THEN <<>> ELSE InsertOrdinal(Head(ns), SortOrdinals(Tail(ns)))

\* the gap sizes (ordinal[next] - ordinal[prev]) - 1 of the adjacent pairs of a
\* section's classes on a day, in canonical slot order
GapSizes(schedule, key, day) ==
    LET ordinal == SortOrdinals(OrdinalsOn(schedule, key, day))
    IN [i \in 1..(Len(ordinal) - 1) |-> (ordinal[i + 1] - ordinal[i]) - 1]

SectionDays(schedule) == SectionKeys(schedule) \X Range(DayOfWeek)

\* the sum of the gap sizes over every section and day
SumOfGaps(schedule) ==
    SumOver([p \in SectionDays(schedule) |-> SumSeq(GapSizes(schedule, p[1], p[2]))],
            SectionDays(schedule))

\* the sum of the gap sizes above 0 over every section and day
SumOfPositiveGaps(schedule) ==
    SumOver([p \in SectionDays(schedule) |->
                LET gaps == GapSizes(schedule, p[1], p[2])
                IN SumSeq([i \in 1..Len(gaps) |-> IF gaps[i] > 0 THEN gaps[i] ELSE 0])],
            SectionDays(schedule))

NoNegativeGap(schedule) ==
    \A p \in SectionDays(schedule) :
        \A i \in 1..Len(GapSizes(schedule, p[1], p[2])) : GapSizes(schedule, p[1], p[2])[i] >= 0

CanonicalStartTimes(schedule) ==
    \A i \in 1..Len(schedule) : schedule[i].timeslot.start_time \in DOMAIN SLOT_ORDER

\* some section has two classes in time slots of one day and one start time
TwinClasses(schedule) ==
    \E i, j \in 1..Len(schedule) :
        /\ i # j
        /\ schedule[i].sections \cap schedule[j].sections # {}
        /\ schedule[i].timeslot.day = schedule[j].timeslot.day
        /\ schedule[i].timeslot.start_time = schedule[j].timeslot.start_time

\* the score of the Solution without its two other penalties
GapPartOfScore ==
    result.score - _calculate_undesirable_slot_penalty(Schedule)
                 - _calculate_distribution_penalty(Schedule)

\* C29 as stated: the gap penalty of a returned schedule with canonical start
\* times is the gap weight times the sum of the gap sizes of the adjacent
\* pairs, every gap size is at least 0, and the penalty is not negative.
C29_GapPenaltyIsSumOfGaps ==
    Returned /\ CanonicalStartTimes(Schedule) =>
        /\ _calculate_student_gap_penalty(Schedule) = 5 * ScoreScale * SumOfGaps(Schedule)
        /\ GapPartOfScore = 5 * ScoreScale * SumOfGaps(Schedule)
        /\ NoNegativeGap(Schedule)
        /\ _calculate_student_gap_penalty(Schedule) >= 0

\* C29 (amended): the gap penalty of a returned schedule with canonical start
\* times is the gap weight times the sum of the gap sizes above 0 and is not
\* negative; every gap size is at least 0 unless some section has two classes
\* in time slots of one day and one start time, whose gap size is -1.
C29_GapPenaltyIsSumOfPositiveGaps ==
    Returned /\ CanonicalStartTimes(Schedule) =>
        /\ _calculate_student_gap_penalty(Schedule)
              = 5 * ScoreScale * SumOfPositiveGaps(Schedule)
        /\ GapPartOfScore = 5 * ScoreScale * SumOfPositiveGaps(Schedule)
        /\ _calculate_student_gap_penalty(Schedule) >= 0
        /\ ~TwinClasses(Schedule) => NoNegativeGap(Schedule)
        /\ \A p \in SectionDays(Schedule) :
              \A i \in 1..Len(GapSizes(Schedule, p[1], p[2])) :
                  GapSizes(Schedule, p[1], p[2])[i] >= -1

\* a section has three classes on one day, two of them at one start time and
\* the third two slots later: gap sizes -1 and 1
C29_Witness ==
    /\ Returned
    /\ CanonicalStartTimes(Schedule)
    /\ TwinClasses(Schedule)
    /\ \E p \in SectionDays(Schedule) : GapSizes(Schedule, p[1], p[2]) = << -1, 1 >>


\* ---- C30: a course whose rooms are all below the planning size ----
\* the courses the solver was constructed with pending sections for
PendingAtStart ==
    {unscheduled_sections_map[i].course :
        i \in {j \in 1..Len(unscheduled_sections_map) :
                  unscheduled_sections_map[j].sections # {}}}

\* a room course whose Domain list is not empty
HasDomain(course) ==
    /\ course.type # "Project"
    /\ data.timeslots # <<>>
    /\ RoomsFor(course) # {}
    /\ InstructorsFor(course) # {}

\* a course with pending sections and a Domain list, every room of which is
\* below the planning size of one section
Starved(course) ==
    /\ course \in PendingAtStart
    /\ HasDomain(course)
    /\ \A r \in RoomsFor(course) : r.capacity < 15

\* no bundle is yielded for a Domain value of a starved course
NoBundleYielded ==
    \A i \in 1..Len(stack) :
        stack[i].pc \in {"group", "wait", "resume"} /\ Starved(stack[i].course)
            => stack[i].groups = <<>>

\* no class of a starved course is in an assignment of the search
NoClassPlaced ==
    \A i \in 1..Len(stack) : \A j \in 1..Len(stack[i].assignment) :
        ~Starved(stack[i].assignment[j].variable.course)

\* a frame that selected a starved course has its Domain list and goes into
\* the loops
NoDeadEndSignalled ==
    /\ \A i \in 1..Len(stack) :
          stack[i].pc # "entry" /\ Starved(stack[i].course)
              => stack[i].domains # <<>>
    /\ (\A c \in PendingAtStart : c.type = "Project" \/ HasDomain(c))
          /\ data.timeslots # <<>>
              => op # "dead_end"

\* C30: when every room valid for a course with pending sections has a
\* capacity below 15 and the course's Domain list is not empty, no bundle is
\* yielded for any of its Domain values, no class of the course is placed,
\* the selector does not signal a dead end for it, and solve returns no
\* solution.
C30_SmallRoomsStarveTheCourse ==
    (\E c \in PendingAtStart : Starved(c)) =>
        /\ NoBundleYielded
        /\ NoClassPlaced
        /\ NoDeadEndSignalled
        /\ best_assignment = None
        /\ Done => result = None

\* the loops of a frame below the root are at the last Domain value of a
\* starved course and have no bundle to try
C30_Witness ==
    /\ phase = "search"
    /\ Len(stack) >= 2
    /\ Top.pc = "group"
    /\ Starved(Top.course)
    /\ Top.di = Len(Top.domains)
    /\ Top.groups = <<>>
    /\ op = "domain"


\* ---- C31: nothing to schedule ----
\* no course has a pending section when the solver is constructed
NothingPending == AllScheduled(unscheduled_sections_map)

\* the root call is the only call, it selects no course, and solve returns None
EmptyProblemReturnsNone ==
    NothingPending =>
        /\ Len(stack) <= 1
        /\ op \in {"init", "solve", "leaf", "leaf_write", "timeout", "solve_return"}
        /\ Done => result = None

\* the root call, unless the timeout of an OPTIMIZE run fires at once, takes
\* the empty assignment for a completion: FIND_FIRST returns it, OPTIMIZE
\* records it with the score of the empty schedule
EmptyAssignmentIsComplete ==
    NothingPending /\ AtEntry =>
        \/ mode = FIND_FIRST /\ op' = "leaf" /\ ret' = [some |-> <<>>]
        \/ /\ mode = OPTIMIZE /\ op' = "leaf_write" /\ ret' = None
           /\ best_assignment' = [some |-> <<>>] /\ best_score' = 0
        \/ /\ mode = OPTIMIZE /\ op' = "timeout" /\ ret' = None
           /\ best_assignment' = None

\* C31: when no course has a pending section at the start, the search takes
\* the initial empty assignment for complete, and solve returns None in both
\* modes, not a Solution with an empty schedule.
C31_EmptyProblemGivesNone ==
    []EmptyProblemReturnsNone /\ [][EmptyAssignmentIsComplete]_vars

\* an OPTIMIZE run over an empty curriculum has recorded the empty assignment
\* with score 0 and has returned None
C31_Witness ==
    /\ Done
    /\ NothingPending
    /\ data.curriculum = <<>>
    /\ mode = OPTIMIZE
    /\ best_assignment = [some |-> <<>>]
    /\ best_score = 0
    /\ result = None


\* ---- C32: one course at a time ----
\* the frame has chosen its course
HasCourse(frame) == frame.pc \in {"domain", "group", "wait", "resume"}

\* the number of Domain values of a course, from the data alone
StaticDomainSize(course) ==
    IF course.type = "Project" THEN Len(data.timeslots)
    ELSE Len(data.timeslots) * Cardinality(RoomsFor(course))
                             * Cardinality(InstructorsFor(course))

\* the positions of the courses with pending sections in a pending-work map
PendingPositions(map) == {i \in 1..Len(map) : map[i].sections # {}}

\* the course of a frame is the first course with pending sections among those
\* of the smallest static domain size
ChosenByPendingAndSize(frame) ==
    \E i \in PendingPositions(frame.unscheduled_sections_map) :
        LET map == frame.unscheduled_sections_map
        IN /\ map[i].course = frame.course
           /\ \A j \in PendingPositions(map) :
                 \/ StaticDomainSize(map[i].course) < StaticDomainSize(map[j].course)
                 \/ StaticDomainSize(map[i].course) = StaticDomainSize(map[j].course) /\ i <= j

\* a callee chooses the course of its caller while that course has pending
\* sections
SameCourseWhilePending ==
    \A i \in 1..(Len(stack) - 1) :
        /\ HasCourse(stack[i + 1])
        /\ DictGet(stack[i + 1].unscheduled_sections_map, stack[i].course) # {}
        => stack[i + 1].course = stack[i].course

\* the sections of the first n classes of an assignment that are of a course
PlacedOf(assignment, n, course) ==
    UNION {assignment[i].variable.sections :
              i \in {j \in 1..n : assignment[j].variable.course = course}}

\* the classes of one course are next to each other in an assignment, and
\* where the course changes the earlier course has all its sections placed
ConsecutiveBundles(assignment) ==
    /\ \A i, j, k \in 1..Len(assignment) :
          i < j /\ j < k /\ assignment[i].variable.course = assignment[k].variable.course
              => assignment[j].variable.course = assignment[i].variable.course
    /\ \A n \in 1..(Len(assignment) - 1) :
          assignment[n].variable.course # assignment[n + 1].variable.course
              => PlacedOf(assignment, n, assignment[n].variable.course)
                   = DictGet(unscheduled_sections_map, assignment[n].variable.course)

OneCourseAtATime ==
    /\ \A i \in 1..Len(stack) :
          /\ HasCourse(stack[i]) => ChosenByPendingAndSize(stack[i])
          /\ ConsecutiveBundles(stack[i].assignment)
    /\ SameCourseWhilePending
    /\ best_assignment # None => ConsecutiveBundles(best_assignment.some)
    /\ ret # None /\ ~IsRaised(ret) => ConsecutiveBundles(ret.some)

\* a dead end is signalled to the root call only: a callee has the Domain
\* lists its caller had
DeadEndAtRootOnly == op' = "dead_end" => Len(stack) = 1

\* C32: along every branch the selector returns the same course until the
\* pending set of that course is empty; the choice is made from the pending
\* sets and the fixed domain sizes alone, the first position winning a tie,
\* so that all bundles of one course are placed one after another before any
\* bundle of another course.
C32_OneCourseAtATime == []OneCourseAtATime /\ [][DeadEndAtRootOnly]_vars

\* two bundles of one course have been placed, then one of another course,
\* where the two courses tie in domain size
C32_Witness ==
    /\ phase = "search"
    /\ Len(Top.assignment) >= 3
    /\ Top.assignment[1].variable.course = Top.assignment[2].variable.course
    /\ Top.assignment[2].variable.course # Top.assignment[3].variable.course
    /\ StaticDomainSize(Top.assignment[1].variable.course)
         = StaticDomainSize(Top.assignment[3].variable.course)


\* ---- C33: the best-result slot and the cancellation flag ----
\* the slot holds an assignment exactly when the recorded score is finite,
\* and the recorded score is the score of that assignment
SlotAndScoreAgree ==
    mode = OPTIMIZE =>
        /\ best_assignment # None <=> best_score # Inf
        /\ best_assignment # None => best_score = ScoreOf(best_assignment.some)

\* no step raises the recorded score or clears the flag
ScoreDownFlagUp ==
    mode = OPTIMIZE =>
        /\ best_score' <= best_score
        /\ search_terminated => search_terminated'

\* C33: during an OPTIMIZE run the recorded best score never increases,
\* best_assignment is set exactly when best_score is finite, best_score is
\* the score of best_assignment, and the cancellation flag, once set, stays
\* set.
C33_BestSlotInvariants == []SlotAndScoreAgree /\ [][ScoreDownFlagUp]_vars

\* the flag is set and frames unwind, the slot holding a completion that
\* replaced the first one visited
C33_Witness ==
    /\ mode = OPTIMIZE
    /\ phase = "search"
    /\ search_terminated
    /\ best_assignment # None
    /\ best_score < Inf
    /\ LET all == AllCompletions
       IN best_assignment.some # all[1] /\ best_score < ScoreOf(all[1])

====
